---- MODULE Spec2Model ----
(***************************************************************************)
(* A model of go-mistral-ocr: the API client (pkg/ocr/client.go: key and   *)
(* endpoint rotation, the two-level retry loop of UploadPDF, GetSignedURL  *)
(* and ProcessOCR) and the processor (pkg/ocr/processor.go: ProcessFile,   *)
(* saveResults, extractTextFromMarkdown, ProcessMultipleFiles).            *)
(*                                                                         *)
(* Strings whose content matters (Markdown, base64 payloads) are sequences *)
(* of one-character strings; Go's 0-based indices are kept, so the element *)
(* at Go index i of a slice s is s[i + 1].                                 *)
(***************************************************************************)
EXTENDS Integers, Sequences, FiniteSets, TLC

VARIABLES
    apiKeys,                 \* Client.apiKeys
    baseURLs,                \* Client.baseURLs
    maxRetries,              \* Client.maxRetries
    retryDifferentEndpoint,  \* Client.retryDifferentEndpoint
    currentKeyIndex,         \* Client.currentKeyIndex
    currentURLIndex,         \* Client.currentURLIndex
    call,                    \* the locals of the running UploadPDF / GetSignedURL / ProcessOCR
    net,                     \* history: what the running call has put on the wire
    rot,                     \* history: what a run of next() calls has returned
    fs,                      \* the output directories on disk, by output name
    mat,                     \* history: the last run of saveResults
    job,                     \* the locals of ProcessMultipleFiles and ProcessFile
    conc                     \* goroutines calling the rotator at the same time, and c.mu

clientVars == <<apiKeys, baseURLs, maxRetries, retryDifferentEndpoint,
                currentKeyIndex, currentURLIndex>>
vars == <<apiKeys, baseURLs, maxRetries, retryDifferentEndpoint,
          currentKeyIndex, currentURLIndex, call, net, rot, fs, mat, job, conc>>

-----------------------------------------------------------------------------
(* Bounds of the model.                                                    *)

MaxURLs == 3      \* longest endpoint pool
MaxRepeatURLs == 2   \* longest endpoint pool that lists an address twice
MaxKeys == 2      \* longest credential pool
MaxRetriesBound == 2   \* largest maxRetries

-----------------------------------------------------------------------------
(* The pools.                                                              *)

URLNames == <<"u1", "u2", "u3", "u4", "u5">>
KeyNames == <<"k1", "k2", "k3", "k4">>

DefaultBaseURL == "https://api.mistral.ai/v1/"

RECURSIVE MaxOf(_)
MaxOf(s) == IF s = <<>> THEN 0
            ELSE LET m == MaxOf(Tail(s)) IN IF Head(s) > m THEN Head(s) ELSE m

\* Endpoint pools up to renaming of the addresses: the code compares
\* addresses for equality only, so a pool is taken in the form where each
\* address is either one seen earlier in the list or the next new one.
IndexPools(n) ==
    { p \in [1..n -> 1..n] :
        \A i \in 1..n : p[i] <= 1 + MaxOf(SubSeq(p, 1, i - 1)) }

Range(s) == { s[i] : i \in 1..Len(s) }

Distinct(s) == \A i, j \in 1..Len(s) : s[i] = s[j] => i = j

\* the configured pools: NewClient takes the list as it is given, so a pool
\* may list an address more than once
URLPools ==
    UNION { { [i \in 1..n |-> URLNames[p[i]]] :
                p \in { q \in IndexPools(n) : Distinct(q) \/ n <= MaxRepeatURLs } }
            : n \in 0..MaxURLs }

KeyPools == { [i \in 1..n |-> KeyNames[i]] : n \in 0..MaxKeys }

-----------------------------------------------------------------------------
(* The rotator: getNextAPIKey, getNextBaseURL, getCurrentBaseURL.  Each    *)
(* runs under Client.mu, so each is one atomic step.                       *)

\* the cursor after one advance: (index + 1) % len(pool)
AdvanceStuck(index, n) == index
AdvanceSkip(index, n) == (index + 2) % n
Advance(index, n) == (index + 1) % n

\* getNextAPIKey: <<returned key, new currentKeyIndex>>
getNextAPIKey ==
    IF Len(apiKeys) = 0 THEN <<"", currentKeyIndex>>
    ELSE <<apiKeys[currentKeyIndex + 1], Advance(currentKeyIndex, Len(apiKeys))>>

\* getNextBaseURL: <<returned address, new currentURLIndex>>
getNextBaseURL ==
    IF Len(baseURLs) = 0 THEN <<DefaultBaseURL, currentURLIndex>>
    ELSE <<baseURLs[currentURLIndex + 1], Advance(currentURLIndex, Len(baseURLs))>>

\* getCurrentBaseURL: the address at the cursor; the cursor is not changed
getCurrentBaseURL ==
    IF Len(baseURLs) = 0 THEN DefaultBaseURL
    ELSE baseURLs[currentURLIndex + 1]

-----------------------------------------------------------------------------
(* The retry loop shared by UploadPDF, GetSignedURL and ProcessOCR.        *)

Ops == {"upload", "signed", "ocr"}

\* abstract length of the uploaded file, in blocks
FileLen == 1

\* what one attempt of the inner loop can meet
\*   copy   : io.Copy(part, file) fails (UploadPDF only), nothing is sent
\*   newreq : http.NewRequest fails, nothing is sent
\*   send   : client.Do fails
\*   read   : io.ReadAll(resp.Body) fails
\*   status : a response with a status code and a body
Statuses == {200, 401, 403, 500, 502, 503, 504}
Bodies(code) == IF code = 200 THEN {"json", "garbage"} ELSE {"b1", "b2"}

CopyFailure == { [kind |-> "copy", code |-> 0, body |-> ""] }
Replies ==
    { [kind |-> k, code |-> 0, body |-> ""] : k \in {"newreq", "send", "read"} }
    \cup UNION { { [kind |-> "status", code |-> c, body |-> b] : b \in Bodies(c) }
                 : c \in Statuses }
Outcomes(op) == (IF op = "upload" THEN CopyFailure ELSE {}) \cup Replies

\* an attempt that put a request on the wire
Sent(o) == o.kind \in {"send", "read", "status"}

NoErr == [op |-> "", kind |-> "nil", code |-> 0, body |-> ""]

\* the error value fmt.Errorf builds for a failed attempt: the operation's
\* message, and for a status error the status code and the response body
ErrOf(op, o) == [op |-> op, kind |-> o.kind, code |-> o.code, body |-> o.body]

\* json.Unmarshal of a 200 body fails
DecodeErr(op) == [op |-> op, kind |-> "decode", code |-> 200, body |-> "garbage"]

\* the status chain of the inner loop: what the attempt does next
\*   "success" return the decoded value     "decode" return the decode error
\*   "continue" next attempt, same endpoint "break" leave the inner loop
\*   "return" return lastErr
ClassifyDecodeRetried(o, retry) ==
    IF o.kind # "status" THEN "continue"
    ELSE IF o.code = 200 THEN (IF o.body = "json" THEN "success" ELSE "continue")
    ELSE IF o.code \in {504, 503} THEN "continue"
    ELSE IF o.code \in {401, 403} THEN "break"
    ELSE IF retry THEN "break" ELSE "return"
ClassifyTransientBreaks(o, retry) ==
    IF o.kind # "status" THEN "continue"
    ELSE IF o.code = 200 THEN (IF o.body = "json" THEN "success" ELSE "decode")
    ELSE IF o.code \in {504, 503, 401, 403} THEN "break"
    ELSE IF retry THEN "break" ELSE "return"
ClassifyAuthRetried(o, retry) ==
    IF o.kind # "status" THEN "continue"
    ELSE IF o.code = 200 THEN (IF o.body = "json" THEN "success" ELSE "decode")
    ELSE IF o.code \in {504, 503, 401, 403} THEN "continue"
    ELSE IF retry THEN "break" ELSE "return"
Classify(o, retry) ==
    IF o.kind # "status" THEN "continue"
    ELSE IF o.code = 200 THEN (IF o.body = "json" THEN "success" ELSE "decode")
    ELSE IF o.code \in {504, 503} THEN "continue"
    ELSE IF o.code \in {401, 403} THEN "break"
    ELSE IF retry THEN "break" ELSE "return"

\* lastErr after an attempt: every failing path assigns it
RecordErrKeepAuth(op, o, lastErr) ==
    IF o.kind = "status" /\ o.code \in {401, 403} THEN lastErr ELSE ErrOf(op, o)
RecordErr(op, o, lastErr) == ErrOf(op, o)

AllURLs == Range(URLNames) \cup {DefaultBaseURL}

\* what a call is given: UploadPDF a file (its size in bytes; os.Stat or
\* os.Open of it may fail), GetSignedURL a file id, ProcessOCR a URL
Arg(kind, size) == [kind |-> kind, size |-> size]
NoArg == Arg("none", 0)
IdArg == Arg("id", 0)
URLArg == Arg("url", 0)
BadURLArg == Arg("badurl", 0)

\* UploadPDF's limit: float64(size) / 1024 / 1024 > 50; the division by a
\* power of two is exact, so the test is size > 50 * 1024 * 1024
SizeLimitMB == 50
BytesPerMB == 1024 * 1024
SizeLimit == SizeLimitMB * BytesPerMB
TooLargeFrom51(size) == size >= (SizeLimitMB + 1) * BytesPerMB
TooLarge(size) == size > SizeLimit

\* what a function checks before its loops: "ok", or the error it returns
Precheck(op, arg) ==
    IF op = "upload"
    THEN IF arg.kind = "nostat" THEN "stat"
         ELSE IF TooLarge(arg.size) THEN "size"
         ELSE IF arg.kind = "noopen" THEN "open"
         ELSE "ok"
    ELSE IF op = "ocr" /\ arg.kind = "badurl" THEN "url"
    ELSE "ok"

Idle == [pc |-> "idle", op |-> "", apiKey |-> "", arg |-> NoArg, endpointAttempt |-> 0,
         attempt |-> 0, baseURL |-> "", triedEndpoints |-> {}, lastErr |-> NoErr,
         usedAPIKey |-> "", filePos |-> 0,
         ret |-> [err |-> NoErr, value |-> "", key |-> ""]]

\* body: the blocks of the file in the last upload request put on the wire;
\* delay: the seconds the last pass of the inner loop slept before it began
NoNet == [sent |-> [u \in AllURLs |-> 0], n |-> 0, attempts |-> 0,
          last |-> NoErr, allTransient |-> TRUE, ok200 |-> FALSE, startURLIndex |-> 0,
          body |-> 0, delay |-> 0]

\* the function's entry, up to the first evaluation of the outer loop's
\* condition; apiKey is the parameter of GetSignedURL and ProcessOCR
Begin(op, key, arg) ==
    /\ call' = [Idle EXCEPT !.pc = "outer", !.op = op, !.apiKey = key, !.arg = arg]
    /\ net' = [NoNet EXCEPT !.startURLIndex = currentURLIndex]

\* return <zero value>, lastErr
ReturnLastErr ==
    call' = [call EXCEPT !.pc = "done", !.ret = [err |-> call.lastErr, value |-> "", key |-> ""]]

\* the inner loop's condition: attempt <= c.maxRetries
InnerCondOneMore(attempt) == attempt <= maxRetries + 1
InnerCond(attempt) == attempt <= maxRetries

\* triedEndpoints[baseURL] = true, then the inner loop's first condition
EnterInner(b) ==
    call' = [call EXCEPT !.baseURL = b,
                         !.triedEndpoints = call.triedEndpoints \cup {b},
                         !.attempt = 0,
                         !.pc = IF InnerCond(0) THEN "inner" ELSE "after"]

\* outer loop head: endpointAttempt < len(c.baseURLs), getCurrentBaseURL
OuterLoop ==
    /\ call.pc = "outer"
    /\ IF call.endpointAttempt < Len(baseURLs)
       THEN IF getCurrentBaseURL \in call.triedEndpoints
            THEN call' = [call EXCEPT !.pc = "next"]
            ELSE EnterInner(getCurrentBaseURL)
       ELSE ReturnLastErr
    /\ UNCHANGED <<clientVars, net, rot, conc, fs, mat, job>>

\* getNextBaseURL, its result taken without a look at triedEndpoints
NextEndpointUnchecked ==
    /\ call.pc = "next"
    /\ currentURLIndex' = getNextBaseURL[2]
    /\ EnterInner(getNextBaseURL[1])
    /\ UNCHANGED <<apiKeys, baseURLs, maxRetries, retryDifferentEndpoint,
                   currentKeyIndex, net, rot, conc, fs, mat, job>>

\* the endpoint at the cursor was tried already: getNextBaseURL
NextEndpoint ==
    /\ call.pc = "next"
    /\ currentURLIndex' = getNextBaseURL[2]
    /\ IF getNextBaseURL[1] \in call.triedEndpoints
       THEN IF Cardinality(call.triedEndpoints) >= Len(baseURLs)
            THEN ReturnLastErr
            ELSE call' = [call EXCEPT !.pc = "outer",
                                      !.endpointAttempt = call.endpointAttempt + 1]
       ELSE EnterInner(getNextBaseURL[1])
    /\ UNCHANGED <<apiKeys, baseURLs, maxRetries, retryDifferentEndpoint,
                   currentKeyIndex, net, rot, conc, fs, mat, job>>

\* math.Pow(2, n) for a whole n >= 0
RECURSIVE Pow2(_)
Pow2(n) == IF n = 0 THEN 1 ELSE 2 * Pow2(n - 1)

\* if attempt > 0 { time.Sleep(time.Duration(math.Pow(2, attempt-1)) * time.Second) }:
\* the seconds slept at the head of a pass
BackoffFromAttempt(attempt) == IF attempt > 0 THEN Pow2(attempt) ELSE 0
Backoff(attempt) == IF attempt > 0 THEN Pow2(attempt - 1) ELSE 0

\* one pass of the inner loop's body, with what the attempt meets, one of
\* `outcomes`
AttemptWith(outcomes) ==
    /\ call.pc = "inner"
    /\ \E o \in outcomes, stop \in 0..FileLen :
        LET op == call.op
            \* UploadPDF: file.Seek(0, 0) on a retry only
            pos == IF op = "upload" /\ call.attempt > 0 THEN 0 ELSE call.filePos
            \* io.Copy reads to the end, or stops where the read fails
            newPos == IF op # "upload" THEN call.filePos
                      ELSE IF o.kind = "copy" THEN stop ELSE FileLen
            takesKey == op = "upload" /\ o.kind # "copy"
            key == IF op = "upload" THEN (IF takesKey THEN getNextAPIKey[1] ELSE call.usedAPIKey)
                   ELSE call.apiKey
            what == Classify(o, retryDifferentEndpoint)
            after == [call EXCEPT !.filePos = newPos, !.usedAPIKey = IF op = "upload" THEN key ELSE ""]
        IN
        /\ (o.kind = "copy") => stop >= pos
        /\ (o.kind # "copy") => stop = 0
        /\ currentKeyIndex' = IF takesKey THEN getNextAPIKey[2] ELSE currentKeyIndex
        /\ net' = [net EXCEPT
                     !.attempts = @ + 1,
                     !.n = IF Sent(o) THEN @ + 1 ELSE @,
                     !.sent[call.baseURL] = IF Sent(o) THEN @ + 1 ELSE @,
                     !.body = IF Sent(o) /\ op = "upload" THEN FileLen - pos ELSE @,
                     !.delay = Backoff(call.attempt),
                     !.last = ErrOf(op, o),
                     !.ok200 = @ \/ (o.kind = "status" /\ o.code = 200),
                     !.allTransient = net.allTransient /\ o.kind = "status"
                                        /\ o.code \in {503, 504}]
        /\ CASE what = "success" ->
                  call' = [after EXCEPT !.pc = "done",
                             !.ret = [err |-> NoErr, value |-> "ok", key |-> after.usedAPIKey]]
             [] what = "decode" ->
                  call' = [after EXCEPT !.pc = "done",
                             !.ret = [err |-> DecodeErr(op), value |-> "", key |-> ""]]
             [] what = "return" ->
                  call' = [after EXCEPT !.pc = "done",
                             !.lastErr = RecordErr(op, o, call.lastErr),
                             !.ret = [err |-> RecordErr(op, o, call.lastErr), value |-> "",
                                     key |-> ""]]
             [] what = "break" ->
                  call' = [after EXCEPT !.pc = "after",
                             !.lastErr = RecordErr(op, o, call.lastErr)]
             [] what = "continue" ->
                  call' = [after EXCEPT
                             !.lastErr = RecordErr(op, o, call.lastErr),
                             !.attempt = call.attempt + 1,
                             !.pc = IF InnerCond(call.attempt + 1) THEN "inner" ELSE "after"]
    /\ UNCHANGED <<apiKeys, baseURLs, maxRetries, retryDifferentEndpoint,
                   currentURLIndex, rot, conc, fs, mat, job>>

Attempt == AttemptWith(Outcomes(call.op))

\* the inner loop left, the outer loop goes on whatever the policy
AfterInnerGoesOn ==
    /\ call.pc = "after"
    /\ call' = [call EXCEPT !.pc = "outer",
                            !.endpointAttempt = call.endpointAttempt + 1]
    /\ UNCHANGED <<clientVars, net, rot, conc, fs, mat, job>>

\* after the inner loop: if !c.retryDifferentEndpoint { break }
AfterInner ==
    /\ call.pc = "after"
    /\ IF ~retryDifferentEndpoint
       THEN ReturnLastErr
       ELSE call' = [call EXCEPT !.pc = "outer",
                                 !.endpointAttempt = call.endpointAttempt + 1]
    /\ UNCHANGED <<clientVars, net, rot, conc, fs, mat, job>>

\* the credential most recently handed out by getNextAPIKey: the one the
\* callers of GetSignedURL and ProcessOCR pass on (ProcessFile passes the
\* key UploadPDF returned, ProcessURL the result of getNextAPIKey)
LastKeyHandedOut ==
    IF Len(apiKeys) = 0 THEN ""
    ELSE apiKeys[((currentKeyIndex + Len(apiKeys) - 1) % Len(apiKeys)) + 1]

\* the function's entry: an early return, or the loops
Enter(op, key, arg) ==
    IF Precheck(op, arg) # "ok"
    THEN /\ call' = [Idle EXCEPT
                       !.pc = "done", !.op = op, !.apiKey = key, !.arg = arg,
                       !.ret = [err |-> [op |-> op, kind |-> Precheck(op, arg),
                                         code |-> 0, body |-> ""],
                                value |-> "", key |-> ""]]
         /\ net' = [NoNet EXCEPT !.startURLIndex = currentURLIndex]
    ELSE Begin(op, key, arg)

\* the arguments of the calls: files at the size limit and above it
Args(op) ==
    IF op = "upload"
    THEN { Arg("file", SizeLimit), Arg("file", SizeLimit + 1), Arg("file", 2 * SizeLimit),
           Arg("nostat", 0), Arg("noopen", SizeLimit) }
    ELSE IF op = "ocr" THEN {URLArg, BadURLArg}
    ELSE {IdArg}

\* a caller invokes one of the three operations
Invoke ==
    /\ call.pc = "idle"
    /\ \E op \in Ops : \E arg \in Args(op) :
          Enter(op, IF op = "upload" THEN "" ELSE LastKeyHandedOut, arg)
    /\ UNCHANGED <<clientVars, rot, conc, fs, mat, job>>

\* files of every size
UploadSizes == {0, 1, SizeLimit - 1, SizeLimit, SizeLimit + 1, 2 * SizeLimit}
UploadArgs ==
    { Arg(k, n) : k \in {"file", "nostat", "noopen"}, n \in UploadSizes }

\* a caller invokes UploadPDF
InvokeUpload ==
    /\ call.pc = "idle"
    /\ \E arg \in UploadArgs : Enter("upload", "", arg)
    /\ UNCHANGED <<clientVars, rot, conc, fs, mat, job>>

\* the caller has taken the result
Finish ==
    /\ call.pc = "done"
    /\ call' = Idle
    /\ net' = NoNet
    /\ UNCHANGED <<clientVars, rot, conc, fs, mat, job>>

-----------------------------------------------------------------------------
(* A run of rotator calls, with what each returned.                        *)

\* a run that starts at the present cursors
NewRun == [keyStart |-> currentKeyIndex, keys |-> <<>>,
           urlStart |-> currentURLIndex, urls |-> <<>>, cur |-> "none"]

RotLimit(pool) == IF Len(pool) = 0 THEN 1 ELSE Len(pool)

RotNextKey ==
    /\ Len(rot.keys) < RotLimit(apiKeys)
    /\ currentKeyIndex' = getNextAPIKey[2]
    /\ rot' = [rot EXCEPT !.keys = Append(@, getNextAPIKey[1])]
    /\ UNCHANGED <<apiKeys, baseURLs, maxRetries, retryDifferentEndpoint,
                   currentURLIndex, call, net, fs, mat, job, conc>>

RotNextURL ==
    /\ Len(rot.urls) < RotLimit(baseURLs)
    /\ currentURLIndex' = getNextBaseURL[2]
    /\ rot' = [rot EXCEPT !.urls = Append(@, getNextBaseURL[1]), !.cur = "none"]
    /\ UNCHANGED <<apiKeys, baseURLs, maxRetries, retryDifferentEndpoint,
                   currentKeyIndex, call, net, fs, mat, job, conc>>

RotCurrentURL ==
    /\ rot.cur = "none"
    /\ rot' = [rot EXCEPT !.cur = getCurrentBaseURL]
    /\ UNCHANGED <<clientVars, call, net, fs, mat, job, conc>>

\* a new run starts
RotRestart ==
    /\ rot # NewRun
    /\ rot' = NewRun
    /\ UNCHANGED <<clientVars, call, net, fs, mat, job, conc>>

-----------------------------------------------------------------------------
(* Strings.  A string is a sequence of one-character strings; a run of     *)
(* characters that no operation looks into ("images/", "jpeg", "data:")    *)
(* stands as one element.                                                  *)

Drop(s, n) == SubSeq(s, n + 1, Len(s))       \* s[n:]
Take(s, n) == SubSeq(s, 1, n)                \* s[:n]

HasPrefix(s, prefix) ==
    Len(s) >= Len(prefix) /\ Take(s, Len(prefix)) = prefix

\* strings.Index(s, sub): the Go index of the first occurrence, or -1
RECURSIVE IndexAt(_, _, _)
IndexAt(s, sub, i) ==
    IF i + Len(sub) > Len(s) THEN -1
    ELSE IF SubSeq(s, i + 1, i + Len(sub)) = sub THEN i
    ELSE IndexAt(s, sub, i + 1)
Index(s, sub) == IndexAt(s, sub, 0)

Contains(s, sub) == Index(s, sub) # -1

\* strings.Replace(s, old, new, 1): the first occurrence only
ReplaceFirst(s, old, new) ==
    IF Index(s, old) = -1 THEN s
    ELSE Take(s, Index(s, old)) \o new \o Drop(s, Index(s, old) + Len(old))

\* strings.ReplaceAll(s, old, new), old not empty: the occurrences that do
\* not overlap, from the left
RECURSIVE ReplaceAll(_, _, _)
ReplaceAll(s, old, new) ==
    IF Index(s, old) = -1 THEN s
    ELSE Take(s, Index(s, old)) \o new
         \o ReplaceAll(Drop(s, Index(s, old) + Len(old)), old, new)

\* strings.Split(s, ","): the pieces between the commas
RECURSIVE Split(_, _)
Split(s, sep) ==
    IF Index(s, sep) = -1 THEN <<s>>
    ELSE <<Take(s, Index(s, sep))>> \o Split(Drop(s, Index(s, sep) + Len(sep)), sep)

-----------------------------------------------------------------------------
(* extractTextFromMarkdown                                                 *)

NL == "\n"
ImgOpen == <<"!", "[">>
ParenClose == <<")">>

\* the loop that removes ![...](...): result and startIdx are its variables
RECURSIVE StripImages(_, _)
StripImages(result, startIdx) ==
    LET rel == Index(Drop(result, startIdx), ImgOpen)
    IN IF rel = -1 THEN result
       ELSE LET imgStart == rel + startIdx
                close == Index(Drop(result, imgStart), ParenClose)
            IN IF close = -1 THEN result
               ELSE StripImages(Take(result, imgStart)
                                  \o Drop(result, close + imgStart + 1), imgStart)

extractTextFromMarkdown(markdown) ==
    ReplaceAll(StripImages(markdown, 0), <<NL, NL>>, <<NL>>)

-----------------------------------------------------------------------------
(* base64.StdEncoding.DecodeString                                         *)

\* the value of a character of the base64 alphabet, -1 for any other
B64Value(c) ==
    CASE c = "A" -> 0 [] c = "B" -> 1 [] c = "Q" -> 16 [] c = "/" -> 63 [] OTHER -> -1

RECURSIVE Without(_, _)
Without(s, chars) ==
    IF s = <<>> THEN <<>>
    ELSE IF Head(s) \in chars THEN Without(Tail(s), chars)
    ELSE <<Head(s)>> \o Without(Tail(s), chars)

\* one group of four characters: <<ok, bytes>>; '=' padding is accepted in
\* the last group only
Quantum(q, last) ==
    LET a == B64Value(q[1])  b == B64Value(q[2])
        c == B64Value(q[3])  d == B64Value(q[4])
        v2 == a * 262144 + b * 4096
        v3 == v2 + c * 64
        v4 == v3 + d
    IN IF a < 0 \/ b < 0 THEN <<FALSE, <<>>>>
       ELSE IF c >= 0 /\ d >= 0
            THEN <<TRUE, <<v4 \div 65536, (v4 \div 256) % 256, v4 % 256>>>>
       ELSE IF last /\ c >= 0 /\ q[4] = "="
            THEN <<TRUE, <<v3 \div 65536, (v3 \div 256) % 256>>>>
       ELSE IF last /\ q[3] = "=" /\ q[4] = "="
            THEN <<TRUE, <<v2 \div 65536>>>>
       ELSE <<FALSE, <<>>>>

RECURSIVE DecodeGroups(_)
DecodeGroups(t) ==
    IF t = <<>> THEN <<TRUE, <<>>>>
    ELSE IF Len(t) < 4 THEN <<FALSE, <<>>>>
    ELSE LET q == Quantum(Take(t, 4), Len(t) = 4)
             rest == DecodeGroups(Drop(t, 4))
         IN IF q[1] /\ rest[1] THEN <<TRUE, q[2] \o rest[2]>> ELSE <<FALSE, <<>>>>

\* DecodeString: <<ok, bytes>>; the decoder skips '\r' and '\n' and
\* rejects every other character outside the alphabet
DecodeString(s) == DecodeGroups(Without(s, {"\r", "\n"}))

-----------------------------------------------------------------------------
(* saveResults                                                             *)

Placeholder == <<".", ".", ".">>
DataPrefix == <<"data:">>
Comma == <<",">>
DefaultExt == <<".", "jpeg">>

\* the characters saveResults removes from the payload of a data URL
Removed == {"\n", "\r", " "}

\* lines 222-247: the bytes of an image, <<ok, bytes>>; not ok: skipped
ImageBytes(payload) ==
    IF payload = <<>> \/ payload = Placeholder THEN <<FALSE, <<>>>>
    ELSE IF HasPrefix(payload, DataPrefix)
         THEN IF Len(Split(payload, Comma)) = 2
              THEN DecodeString(Without(Split(payload, Comma)[2], Removed))
              ELSE <<FALSE, <<>>>>
    ELSE DecodeString(payload)

\* lines 249-253: the file name of an image
ImageFilename(id) == IF Contains(id, <<".">>) THEN id ELSE id \o DefaultExt

\* line 262: filepath.Join("images", imgFilename)
LocalPath(id) == <<"images/">> \o ImageFilename(id)

\* the Markdown reference ![id](target)
ImageRef(id, target) == <<"!", "[">> \o id \o <<"]", "(">> \o target \o <<")">>

NoFile == [there |-> FALSE, data |-> <<>>]
EmptyDir == [exists |-> FALSE, images |-> {}, md |-> NoFile, txt |-> NoFile,
             meta |-> NoFile]

\* what can go wrong on the disk during one saveResults
Fault(what, name) == [what |-> what, name |-> name]

\* every image of the response, in page order and per-page image order
RECURSIVE AllImages(_)
AllImages(pages) ==
    IF pages = <<>> THEN <<>> ELSE Head(pages).images \o AllImages(Tail(pages))

\* an entry of a Go map: functions here are written as sets of pairs
Put(map, k, v) == { e \in map : e[1] # k } \cup {<<k, v>>}
Keys(map) == { e[1] : e \in map }
Get(map, k) == (CHOOSE e \in map : e[1] = k)[2]

\* the images loop left at the first image that is skipped
RECURSIVE SaveImagesUntilSkip(_, _, _)
SaveImagesUntilSkip(imgs, acc, faults) ==
    IF imgs = <<>> THEN acc
    ELSE LET img == Head(imgs)
             dec == ImageBytes(img.payload)
             fn == ImageFilename(img.id)
         IN IF ~dec[1] \/ Fault("image", fn) \in faults
            THEN acc
            ELSE SaveImagesUntilSkip(Tail(imgs),
                            [files |-> Put(acc.files, fn, dec[2]),
                             imageMap |-> Put(acc.imageMap, img.id, LocalPath(img.id)),
                             imageCount |-> acc.imageCount + 1],
                            faults)

\* lines 218-268: the images loop; acc = [files, imageMap, imageCount]
RECURSIVE SaveImages(_, _, _)
SaveImages(imgs, acc, faults) ==
    IF imgs = <<>> THEN acc
    ELSE LET img == Head(imgs)
             dec == ImageBytes(img.payload)
             fn == ImageFilename(img.id)
         IN IF ~dec[1] \/ Fault("image", fn) \in faults
            THEN SaveImages(Tail(imgs), acc, faults)
            ELSE SaveImages(Tail(imgs),
                            [files |-> Put(acc.files, fn, dec[2]),
                             imageMap |-> Put(acc.imageMap, img.id, LocalPath(img.id)),
                             imageCount |-> acc.imageCount + 1],
                            faults)

\* lines 279-286: the links of one page, the map ranged over in `order`
RECURSIVE RewriteLinksFirstOnly(_, _, _)
RewriteLinksFirstOnly(markdown, imageMap, order) ==
    IF order = <<>> THEN markdown
    ELSE RewriteLinksFirstOnly(
            ReplaceFirst(markdown, ImageRef(Head(order), Head(order)),
                         ImageRef(Head(order), Get(imageMap, Head(order)))),
            imageMap, Tail(order))
RECURSIVE RewriteLinks(_, _, _)
RewriteLinks(markdown, imageMap, order) ==
    IF order = <<>> THEN markdown
    ELSE RewriteLinks(
            ReplaceAll(markdown, ImageRef(Head(order), Head(order)),
                       ImageRef(Head(order), Get(imageMap, Head(order)))),
            imageMap, Tail(order))

\* the orders in which a range over a Go map can visit its keys
Orders(keys) ==
    { o \in [1..Cardinality(keys) -> keys] : \A i, j \in DOMAIN o : o[i] = o[j] => i = j }

\* lines 273-295: allMarkdown and allText; orders[i] is the order of the
\* range over imageMap for page i
RECURSIVE PagesOut(_, _, _, _, _)
PagesOut(pages, i, imageMap, includeImages, orders) ==
    IF i > Len(pages) THEN [md |-> <<>>, txt |-> <<>>]
    ELSE LET markdown == IF includeImages
                         THEN RewriteLinks(pages[i].markdown, imageMap, orders[i])
                         ELSE pages[i].markdown
             rest == PagesOut(pages, i + 1, imageMap, includeImages, orders)
         IN [md |-> markdown \o <<NL, NL>> \o rest.md,
             txt |-> extractTextFromMarkdown(markdown) \o <<NL, NL>> \o rest.txt]

\* saveResults that returns an error when metadata.json cannot be written
saveResultsMetaFatal(resp, dir, metadata, includeImages, faults, orders) ==
    IF includeImages /\ Fault("mkdir", <<>>) \in faults
    THEN [dir |-> dir, err |-> "mkdir images", pages |-> 0, imagesSaved |-> 0,
          imageMap |-> {}]
    ELSE
    LET saved == IF includeImages
                 THEN SaveImages(AllImages(resp.pages),
                                 [files |-> dir.images, imageMap |-> {}, imageCount |-> 0],
                                 faults)
                 ELSE [files |-> dir.images, imageMap |-> {}, imageCount |-> 0]
        out == PagesOut(resp.pages, 1, saved.imageMap, includeImages, orders)
        d0 == [dir EXCEPT !.images = saved.files]
        d1 == [d0 EXCEPT !.meta = [there |-> TRUE,
                            data |-> [metadata EXCEPT !.ImagesSaved = saved.imageCount]]]
        d2 == [d1 EXCEPT !.md = [there |-> TRUE, data |-> out.md]]
        d3 == [d2 EXCEPT !.txt = [there |-> TRUE, data |-> out.txt]]
    IN IF Fault("meta", <<>>) \in faults
       THEN [dir |-> d0, err |-> "write metadata.json", pages |-> 0,
             imagesSaved |-> saved.imageCount, imageMap |-> saved.imageMap]
       ELSE IF Fault("md", <<>>) \in faults
       THEN [dir |-> d1, err |-> "write output.md", pages |-> 0,
             imagesSaved |-> saved.imageCount, imageMap |-> saved.imageMap]
       ELSE IF Fault("txt", <<>>) \in faults
       THEN [dir |-> d2, err |-> "write output.txt", pages |-> 0,
             imagesSaved |-> saved.imageCount, imageMap |-> saved.imageMap]
       ELSE [dir |-> d3, err |-> "", pages |-> Len(resp.pages),
             imagesSaved |-> saved.imageCount, imageMap |-> saved.imageMap]

\* saveResults(resp, outputDir, metadata, includeImages) on the directory
\* `dir`: [dir, err, pages, imagesSaved, imageMap]
saveResults(resp, dir, metadata, includeImages, faults, orders) ==
    IF includeImages /\ Fault("mkdir", <<>>) \in faults
    THEN [dir |-> dir, err |-> "mkdir images", pages |-> 0, imagesSaved |-> 0,
          imageMap |-> {}]
    ELSE
    LET saved == IF includeImages
                 THEN SaveImages(AllImages(resp.pages),
                                 [files |-> dir.images, imageMap |-> {}, imageCount |-> 0],
                                 faults)
                 ELSE [files |-> dir.images, imageMap |-> {}, imageCount |-> 0]
        out == PagesOut(resp.pages, 1, saved.imageMap, includeImages, orders)
        d1 == [dir EXCEPT !.images = saved.files,
                 !.meta = IF Fault("meta", <<>>) \in faults THEN @
                          ELSE [there |-> TRUE,
                                data |-> [metadata EXCEPT !.ImagesSaved = saved.imageCount]]]
        d2 == [d1 EXCEPT !.md = [there |-> TRUE, data |-> out.md]]
        d3 == [d2 EXCEPT !.txt = [there |-> TRUE, data |-> out.txt]]
    IN IF Fault("md", <<>>) \in faults
       THEN [dir |-> d1, err |-> "write output.md", pages |-> 0,
             imagesSaved |-> saved.imageCount, imageMap |-> saved.imageMap]
       ELSE IF Fault("txt", <<>>) \in faults
       THEN [dir |-> d2, err |-> "write output.txt", pages |-> 0,
             imagesSaved |-> saved.imageCount, imageMap |-> saved.imageMap]
       ELSE [dir |-> d3, err |-> "", pages |-> Len(resp.pages),
             imagesSaved |-> saved.imageCount, imageMap |-> saved.imageMap]

-----------------------------------------------------------------------------
(* The processor's state.                                                  *)

\* the output directory of the i-th input: OutputDir joined with the
\* input's base name without its extension
OutputName(i) == <<"f", i>>

NoDirs == [d \in {OutputName(1)} |-> EmptyDir]
NoMat == [pc |-> "none"]
NoJob == [pc |-> "idle", continueOnError |-> FALSE, includeImages |-> FALSE,
          files |-> <<>>, errors |-> 0, i |-> 0, results |-> <<>>, skippedFiles |-> 0,
          apiKey |-> "", attempted |-> <<>>, outcome |-> <<>>, fault |-> "none",
          ret |-> [err |-> "", results |-> <<>>]]

\* ProcessMetadata, the fields saveResults writes to metadata.json
Metadata(sourceType, pagesProcessed, includeImages) ==
    [SourceType |-> sourceType, PagesProcessed |-> pagesProcessed,
     IncludeImages |-> includeImages, ImagesSaved |-> 0]

\* the imageMap saveResults builds, known before the pages are rewritten
ImageMapOf(resp, includeImages, faults) ==
    IF includeImages /\ Fault("mkdir", <<>>) \notin faults
    THEN SaveImages(AllImages(resp.pages),
                    [files |-> {}, imageMap |-> {}, imageCount |-> 0], faults).imageMap
    ELSE {}

\* one order of ranging over imageMap for each page
OrderChoices(resp, imageMap) == [1..Len(resp.pages) -> Orders(Keys(imageMap))]

-----------------------------------------------------------------------------
(* ConvertJSONToMarkdown                                                   *)

ImgX == <<"x">>
ImgY == <<"y">>
GoodPayload == <<"A", "A", "A", "B">>
BadPayload == <<"A", "A", "A">>

\* Markdown texts: up to MaxTokens fragments
MaxTokens == 3
MdFragments ==
    { <<"A">>, ImageRef(ImgX, ImgX), ImageRef(ImgY, ImgY), <<"!", "[">>, <<")">>, <<NL>> }
RECURSIVE Texts(_, _)
Texts(fragments, n) ==
    IF n = 0 THEN {<<>>}
    ELSE Texts(fragments, n - 1)
         \cup { t \o f : t \in Texts(fragments, n - 1), f \in fragments }

Image(id, payload) == [id |-> id, payload |-> payload]
Page(markdown, images) == [markdown |-> markdown, images |-> images]

MdImageLists ==
    { <<>>, <<Image(ImgX, GoodPayload)>>, <<Image(ImgX, BadPayload)>>,
      <<Image(ImgX, GoodPayload), Image(ImgY, GoodPayload)>>,
      <<Image(ImgX, BadPayload), Image(ImgY, GoodPayload)>> }
SecondPages == { <<>>, <<Page(<<"B">>, <<>>)>>, <<Page(ImageRef(ImgX, ImgX), <<>>)>> }

\* responses whose Markdown varies
MdResponses ==
    { [pages |-> <<Page(t, il)>> \o rest] :
        t \in Texts(MdFragments, MaxTokens), il \in MdImageLists, rest \in SecondPages }

\* image payloads: raw base64 or a data URL, up to MaxFrags fragments
MaxFrags == 3
PayloadFragments ==
    { <<"A", "A", "A", "A">>, <<"B", "B", "B", "B">>, <<"A", "B", "=", "=">>,
      <<NL>>, <<"\t">>, <<" ">>, Comma }
Mime == <<"image/jpeg;base64">>
DataURL(payload) == DataPrefix \o Mime \o Comma \o payload
ImgPayloads ==
    Texts(PayloadFragments, MaxFrags)
    \cup { DataURL(p) : p \in Texts(PayloadFragments, MaxFrags) }
    \cup { Placeholder, DataPrefix \o Mime }

\* responses whose image payload varies
ImgResponses ==
    { [pages |-> <<Page(<<"A">> \o ImageRef(ImgX, ImgX), <<Image(ImgX, p)>> \o more)>>] :
        p \in ImgPayloads, more \in { <<>>, <<Image(ImgY, GoodPayload)>> } }

\* the JSON file given to ConvertJSONToMarkdown
JSONFiles ==
    { [kind |-> "unreadable"], [kind |-> "garbage"] }
    \cup { [kind |-> "response", resp |-> r] : r \in MdResponses \cup ImgResponses }

\* at most one thing goes wrong on the disk during a run
FaultChoices ==
    { {} } \cup { {Fault(w, <<>>)} : w \in {"mkdirout", "mkdir", "meta", "md", "txt"} }
           \cup { {Fault("image", ImageFilename(ImgX))} }

Failed(err) == [pc |-> "done", err |-> err, saved |-> FALSE]

ConvertJSONToMarkdown ==
    /\ mat.pc = "none"
    /\ \E json \in JSONFiles, includeImages \in BOOLEAN, faults \in FaultChoices :
        LET name == OutputName(1) IN
        IF json.kind = "unreadable"
        THEN mat' = Failed("read json") /\ fs' = fs
        ELSE IF json.kind = "garbage"
        THEN mat' = Failed("parse json") /\ fs' = fs
        ELSE IF Fault("mkdirout", <<>>) \in faults
        THEN mat' = Failed("mkdir output") /\ fs' = fs
        ELSE \E orders \in OrderChoices(json.resp,
                                        ImageMapOf(json.resp, includeImages, faults)) :
              LET dir == [fs[name] EXCEPT !.exists = TRUE]
                  metadata == Metadata("json", Len(json.resp.pages), includeImages)
                  ret == saveResults(json.resp, dir, metadata, includeImages, faults, orders)
              IN /\ fs' = [fs EXCEPT ![name] = ret.dir]
                 /\ mat' = [pc |-> "done", err |-> ret.err, saved |-> TRUE,
                            resp |-> json.resp, includeImages |-> includeImages,
                            faults |-> faults, ret |-> ret]
    /\ UNCHANGED <<clientVars, call, net, rot, conc, job>>

\* responses whose image identifiers vary: a page that refers to each of
\* its one or two images, the second one with bytes of its own
ImgXJpeg == <<"x", ".", "jpeg">>
OtherPayload == <<"B", "B", "B", "B">>
IdResponses ==
    { [pages |-> <<Page(ImageRef(a, a), <<Image(a, GoodPayload)>>)>>] :
        a \in {ImgX, ImgXJpeg, ImgY} }
    \cup { [pages |-> <<Page(ImageRef(a, a) \o t \o ImageRef(b, b),
                             <<Image(a, GoodPayload), Image(b, p)>>)>> \o rest] :
             a \in {ImgX, ImgXJpeg, ImgY}, b \in {ImgX, ImgXJpeg, ImgY},
             t \in {<<>>, <<"A">>, <<NL>>}, p \in {GoodPayload, OtherPayload, BadPayload},
             rest \in SecondPages }

\* ConvertJSONToMarkdown with image inclusion on a readable file that
\* holds one of these responses, nothing going wrong on the disk
ConvertImages ==
    /\ mat.pc = "none"
    /\ \E resp \in IdResponses :
        \E orders \in OrderChoices(resp, ImageMapOf(resp, TRUE, {})) :
          LET name == OutputName(1)
              dir == [fs[name] EXCEPT !.exists = TRUE]
              metadata == Metadata("json", Len(resp.pages), TRUE)
              ret == saveResults(resp, dir, metadata, TRUE, {}, orders)
          IN /\ fs' = [fs EXCEPT ![name] = ret.dir]
             /\ mat' = [pc |-> "done", err |-> ret.err, saved |-> TRUE,
                        resp |-> resp, includeImages |-> TRUE,
                        faults |-> {}, ret |-> ret]
    /\ UNCHANGED <<clientVars, call, net, rot, conc, job>>

\* the output directory is removed before another conversion
ConvertAgain ==
    /\ mat.pc = "done"
    /\ mat' = NoMat
    /\ fs' = NoDirs
    /\ UNCHANGED <<clientVars, call, net, rot, conc, job>>

-----------------------------------------------------------------------------
(* JSON documents, json.Unmarshal into OCRResponse, and the pages taken    *)
(* from raw_response                                                       *)

\* a JSON value: its type and its content; an object is a set of
\* <<key, value>>, an array a sequence, a string a sequence of characters
JNull == [t |-> "null", v |-> 0]
JAbsent == [t |-> "absent", v |-> 0]
JBool(b) == [t |-> "bool", v |-> b]
JNum(n) == [t |-> "num", v |-> n]
JStr(str) == [t |-> "str", v |-> str]
JArr(seq) == [t |-> "arr", v |-> seq]
JObj(members) == [t |-> "obj", v |-> members]

\* the member of an object under a key, JAbsent when there is none
Field(obj, key) == IF key \in Keys(obj.v) THEN Get(obj.v, key) ELSE JAbsent

ZeroImage == [id |-> <<>>, payload |-> <<>>, TopLeftX |-> 0, TopLeftY |-> 0,
              BottomRightX |-> 0, BottomRightY |-> 0]
ZeroPage == [Index |-> 0, markdown |-> <<>>, images |-> <<>>]

\* json.Unmarshal into an int, a string, an Image, a []Image, a Page and a
\* []Page: [ok, val].  A member that is absent or null leaves the zero
\* value, a value of another type is an UnmarshalTypeError
UnmarshalInt(j) ==
    IF j.t \in {"absent", "null"} THEN [ok |-> TRUE, val |-> 0]
    ELSE IF j.t = "num" THEN [ok |-> TRUE, val |-> j.v]
    ELSE [ok |-> FALSE, val |-> 0]

UnmarshalString(j) ==
    IF j.t \in {"absent", "null"} THEN [ok |-> TRUE, val |-> <<>>]
    ELSE IF j.t = "str" THEN [ok |-> TRUE, val |-> j.v]
    ELSE [ok |-> FALSE, val |-> <<>>]

UnmarshalImage(j) ==
    IF j.t \in {"absent", "null"} THEN [ok |-> TRUE, val |-> ZeroImage]
    ELSE IF j.t # "obj" THEN [ok |-> FALSE, val |-> ZeroImage]
    ELSE LET id == UnmarshalString(Field(j, "id"))
             b64 == UnmarshalString(Field(j, "image_base64"))
             tlx == UnmarshalInt(Field(j, "top_left_x"))
             tly == UnmarshalInt(Field(j, "top_left_y"))
             brx == UnmarshalInt(Field(j, "bottom_right_x"))
             bry == UnmarshalInt(Field(j, "bottom_right_y"))
         IN [ok |-> id.ok /\ b64.ok /\ tlx.ok /\ tly.ok /\ brx.ok /\ bry.ok,
             val |-> [id |-> id.val, payload |-> b64.val,
                      TopLeftX |-> tlx.val, TopLeftY |-> tly.val,
                      BottomRightX |-> brx.val, BottomRightY |-> bry.val]]

UnmarshalImages(j) ==
    IF j.t \in {"absent", "null"} THEN [ok |-> TRUE, val |-> <<>>]
    ELSE IF j.t # "arr" THEN [ok |-> FALSE, val |-> <<>>]
    ELSE [ok |-> \A i \in 1..Len(j.v) : UnmarshalImage(j.v[i]).ok,
          val |-> IF Len(j.v) = 0 THEN <<>>
                  ELSE [i \in 1..Len(j.v) |-> UnmarshalImage(j.v[i]).val]]

UnmarshalPage(j) ==
    IF j.t \in {"absent", "null"} THEN [ok |-> TRUE, val |-> ZeroPage]
    ELSE IF j.t # "obj" THEN [ok |-> FALSE, val |-> ZeroPage]
    ELSE LET index == UnmarshalInt(Field(j, "index"))
             markdown == UnmarshalString(Field(j, "markdown"))
             images == UnmarshalImages(Field(j, "images"))
         IN [ok |-> index.ok /\ markdown.ok /\ images.ok,
             val |-> [Index |-> index.val, markdown |-> markdown.val,
                      images |-> images.val]]

UnmarshalPages(j) ==
    IF j.t \in {"absent", "null"} THEN [ok |-> TRUE, val |-> <<>>]
    ELSE IF j.t # "arr" THEN [ok |-> FALSE, val |-> <<>>]
    ELSE [ok |-> \A i \in 1..Len(j.v) : UnmarshalPage(j.v[i]).ok,
          val |-> IF Len(j.v) = 0 THEN <<>>
                  ELSE [i \in 1..Len(j.v) |-> UnmarshalPage(j.v[i]).val]]

\* json.Unmarshal(jsonData, &ocrResponse): [ok, val], val the Pages
Unmarshal(doc) ==
    IF doc.t = "null" THEN [ok |-> TRUE, val |-> <<>>]
    ELSE IF doc.t # "obj" THEN [ok |-> FALSE, val |-> <<>>]
    ELSE UnmarshalPages(Field(doc, "pages"))

\* lines 411-441: an Image from a map, each member taken when it has the
\* asserted type
ImageFromMap(m) ==
    LET str(k) == IF Field(m, k).t = "str" THEN Field(m, k).v ELSE <<>>
        int(k) == IF Field(m, k).t = "num" THEN Field(m, k).v ELSE 0
    IN [id |-> str("id"), payload |-> str("image_base64"),
        TopLeftX |-> int("top_left_x"), TopLeftY |-> int("top_left_y"),
        BottomRightX |-> int("bottom_right_x"), BottomRightY |-> int("bottom_right_y")]

\* the entries of an array that are maps, in their order
RECURSIVE Maps(_)
Maps(seq) ==
    IF seq = <<>> THEN <<>>
    ELSE (IF Head(seq).t = "obj" THEN <<Head(seq)>> ELSE <<>>) \o Maps(Tail(seq))

ImagesFromMaps(seq) ==
    IF Len(seq) = 0 THEN <<>> ELSE [i \in 1..Len(seq) |-> ImageFromMap(seq[i])]

\* lines 394-446: a Page from a map; the entries of images that are no
\* maps are passed over
PageFromMap(m) ==
    [Index |-> IF Field(m, "index").t = "num" THEN Field(m, "index").v ELSE 0,
     markdown |-> IF Field(m, "markdown").t = "str" THEN Field(m, "markdown").v ELSE <<>>,
     images |-> IF Field(m, "images").t = "arr"
                THEN ImagesFromMaps(Maps(Field(m, "images").v))
                ELSE <<>>]

PagesFromMaps(seq) ==
    IF Len(seq) = 0 THEN <<>> ELSE [i \in 1..Len(seq) |-> PageFromMap(seq[i])]

\* lines 383-451: the pages of raw_response, none when raw_response is no
\* object or its pages no array; the entries that are no maps are passed
\* over
PagesFromRawResponse(doc) ==
    LET raw == IF doc.t = "obj" THEN Field(doc, "raw_response") ELSE JAbsent
        pagesData == IF raw.t = "obj" THEN Field(raw, "pages") ELSE JAbsent
    IN IF pagesData.t = "arr"
       THEN PagesFromMaps(Maps(pagesData.v))
       ELSE <<>>

\* the two stages with the top-level pages ignored
ParsePagesRawFirst(doc) ==
    IF ~Unmarshal(doc).ok THEN [ok |-> FALSE, pages |-> <<>>]
    ELSE IF Len(PagesFromRawResponse(doc)) > 0
    THEN [ok |-> TRUE, pages |-> PagesFromRawResponse(doc)]
    ELSE [ok |-> TRUE, pages |-> Unmarshal(doc).val]

\* lines 374-452: the pages ConvertJSONToMarkdown materializes
ParsePages(doc) ==
    IF ~Unmarshal(doc).ok THEN [ok |-> FALSE, pages |-> <<>>]
    ELSE IF Len(Unmarshal(doc).val) = 0
    THEN [ok |-> TRUE, pages |-> PagesFromRawResponse(doc)]
    ELSE [ok |-> TRUE, pages |-> Unmarshal(doc).val]

\* ProcessMetadata with the raw response, as saveResults is given it
MetadataOf(sourceType, pagesProcessed, includeImages, raw) ==
    [SourceType |-> sourceType, PagesProcessed |-> pagesProcessed,
     IncludeImages |-> includeImages, ImagesSaved |-> 0, RawResponse |-> raw]

\* json.MarshalIndent of a metadata whose RawResponse was never set
MarshalIndentNoRaw(metadata) ==
    JObj({ <<"source_type", JStr(<<metadata.SourceType>>)>>,
           <<"pages_processed", JNum(metadata.PagesProcessed)>>,
           <<"include_images", JBool(metadata.IncludeImages)>>,
           <<"images_saved", JNum(metadata.ImagesSaved)>>,
           <<"raw_response", JNull>> })

\* json.MarshalIndent(metadata): the document in metadata.json, the raw
\* response embedded as it is
MarshalIndent(metadata) ==
    JObj({ <<"source_type", JStr(<<metadata.SourceType>>)>>,
           <<"pages_processed", JNum(metadata.PagesProcessed)>>,
           <<"include_images", JBool(metadata.IncludeImages)>>,
           <<"images_saved", JNum(metadata.ImagesSaved)>>,
           <<"raw_response", metadata.RawResponse>> })

\* the pages of the documents: objects with all members, with an image,
\* without index and images, and with two images of which one is skipped
ImageObj(id, payload, x) ==
    JObj({ <<"id", JStr(id)>>, <<"image_base64", JStr(payload)>>,
           <<"top_left_x", JNum(x)>>, <<"top_left_y", JNum(x + 1)>>,
           <<"bottom_right_x", JNum(x + 2)>>, <<"bottom_right_y", JNum(x + 3)>> })
PageObjs ==
    { JObj({ <<"index", JNum(0)>>, <<"markdown", JStr(<<"A">>)>>,
             <<"images", JArr(<<>>)>> }),
      JObj({ <<"index", JNum(1)>>, <<"markdown", JStr(ImageRef(ImgX, ImgX) \o <<"B">>)>>,
             <<"images", JArr(<<ImageObj(ImgX, GoodPayload, 1)>>)>> }),
      JObj({ <<"markdown", JStr(<<"B">>)>> }),
      JObj({ <<"index", JNum(2)>>,
             <<"markdown", JStr(<<NL, NL, "A">> \o ImageRef(ImgY, ImgY))>>,
             <<"images", JArr(<<ImageObj(ImgY, OtherPayload, 5),
                                ImageObj(ImgX, BadPayload, 1)>>)>> }) }
MaxPages == 2
PageArrays == UNION { [1..n -> PageObjs] : n \in 0..MaxPages }

WithPages(p) == JObj({ <<"pages", JArr(p)>>, <<"model", JStr(<<"m">>)>> })
WithRawPages(p) == JObj({ <<"raw_response", WithPages(p)>> })
WithBoth(p, q) == JObj({ <<"pages", JArr(p)>>, <<"raw_response", WithPages(q)>> })

\* well-formed documents with neither top-level pages nor raw_response.pages
Shapeless ==
    { JObj({}), JObj({ <<"model", JStr(<<"m">>)>> }), JNull,
      JObj({ <<"pages", JNull>> }), JObj({ <<"pages", JArr(<<>>)>> }),
      JObj({ <<"raw_response", JObj({})>> }),
      JObj({ <<"raw_response", JStr(<<"A">>)>> }),
      JObj({ <<"raw_response", JObj({ <<"pages", JStr(<<"A">>)>> })>> }),
      JObj({ <<"text", JStr(<<"A">>)>> }) }

\* well-formed documents that json.Unmarshal into OCRResponse rejects
Mistyped ==
    { JArr(<<>>), JStr(<<"A">>), JObj({ <<"pages", JStr(<<"A">>)>> }),
      JObj({ <<"pages", JArr(<<JNum(1)>>)>> }),
      JObj({ <<"pages", JArr(<<JObj({ <<"markdown", JNum(1)>> })>>)>> }) }

ConvDocs ==
    { WithPages(p) : p \in PageArrays }
    \cup { WithRawPages(p) : p \in PageArrays }
    \cup { WithBoth(p, q) : p \in PageArrays, q \in { r \in PageArrays : Len(r) <= 1 } }
    \cup Shapeless \cup Mistyped

\* ConvertJSONToMarkdown on a file that holds the document `doc`, into the
\* directory `name`: the new mat and fs; parsed = ParsePages(doc)
Convert(doc, parsed, includeImages, name, fault, orders, last) ==
    LET resp == [pages |-> parsed.pages]
        dir == [fs[name] EXCEPT !.exists = TRUE]
        metadata == MetadataOf("json", Len(parsed.pages), includeImages, doc)
    IN IF fault = "read"
       THEN mat' = [last EXCEPT !.pc = "done", !.err = "read json"] /\ fs' = fs
       ELSE IF ~parsed.ok
       THEN mat' = [last EXCEPT !.pc = "done", !.err = "parse json"] /\ fs' = fs
       ELSE IF fault = "mkdirout"
       THEN mat' = [last EXCEPT !.pc = "done", !.err = "mkdir output"] /\ fs' = fs
       ELSE \E ret \in { saveResults(resp, dir, metadata, includeImages, {}, orders) } :
              /\ fs' = [fs EXCEPT ![name] = ret.dir]
              /\ mat' = [last EXCEPT !.pc = "done", !.err = ret.err, !.saved = TRUE,
                                     !.resp = resp, !.ret = ret]

\* the images of the pages that saveResults would map, for the orders of
\* its ranges
OrdersFor(pages, includeImages) ==
    OrderChoices([pages |-> pages], ImageMapOf([pages |-> pages], includeImages, {}))

NoConv == [pc |-> "none", err |-> "", saved |-> FALSE, doc |-> JNull,
           includeImages |-> FALSE, faults |-> {}, resp |-> [pages |-> <<>>],
           ret |-> [err |-> ""], first |-> EmptyDir, firstResp |-> [pages |-> <<>>]]

\* ConvertJSONToMarkdown on a document
ConvertFile ==
    /\ mat.pc = "none"
    /\ \E doc \in ConvDocs, includeImages \in BOOLEAN,
          fault \in {"none", "read", "mkdirout"} :
        \E parsed \in {ParsePages(doc)} :
          \E orders \in OrdersFor(parsed.pages, includeImages) :
            Convert(doc, parsed, includeImages, OutputName(1), fault, orders,
                    [mat EXCEPT !.doc = doc, !.includeImages = includeImages])
    /\ UNCHANGED <<clientVars, call, net, rot, conc, job>>

\* processDocument after ProcessOCR returned the response decoded from a
\* body, which it keeps as RawResponse
ProcessDocument ==
    /\ mat.pc = "none"
    /\ \E p \in PageArrays, includeImages \in BOOLEAN,
          faults \in { {}, {Fault("meta", <<>>)}, {Fault("txt", <<>>)} } :
        \E resp \in { [pages |-> Unmarshal(WithPages(p)).val] } :
          \E orders \in OrdersFor(resp.pages, includeImages) :
            LET dir == [fs[OutputName(1)] EXCEPT !.exists = TRUE]
                metadata == MetadataOf("file", Len(resp.pages), includeImages,
                                       WithPages(p))
            IN \E ret \in { saveResults(resp, dir, metadata, includeImages,
                                        faults, orders) } :
                 /\ fs' = [fs EXCEPT ![OutputName(1)] = ret.dir]
                 /\ mat' = [mat EXCEPT !.pc = "processed", !.err = ret.err,
                                       !.doc = WithPages(p),
                                       !.includeImages = includeImages,
                                       !.faults = faults,
                                       !.first = ret.dir, !.firstResp = resp]
    /\ UNCHANGED <<clientVars, call, net, rot, conc, job>>

\* ConvertJSONToMarkdown on the metadata.json of the run before, with the
\* same options, into the directory named after the file
ConvertMetadata ==
    /\ mat.pc = "processed"
    /\ mat.err = ""
    /\ \E doc \in { IF fs[OutputName(1)].meta.there
                    THEN MarshalIndent(fs[OutputName(1)].meta.data) ELSE JNull } :
        \E parsed \in {ParsePages(doc)} :
          \E orders \in OrdersFor(parsed.pages, mat.includeImages) :
            Convert(doc, parsed, mat.includeImages, OutputName(2),
                    IF fs[OutputName(1)].meta.there THEN "none" ELSE "read", orders,
                    [mat EXCEPT !.doc = doc])
    /\ UNCHANGED <<clientVars, call, net, rot, conc, job>>

-----------------------------------------------------------------------------
(* ProcessMultipleFiles and ProcessFile                                    *)

MaxFiles == 3
MaxPaths == 2

\* what a path of the argument list is: a PDF file, a directory holding
\* PDF files, a directory whose walk fails after them, a file of another
\* type, a path that cannot be stat'ed
PathKinds == {"pdf", "dir", "baddir", "other", "missing"}
PathLists == UNION { [1..n -> PathKinds] : n \in 0..MaxPaths }

\* lines 507-544: the number of files collected, the errors met, and
\* whether the collection returned early
RECURSIVE Collect(_, _, _)
Collect(paths, dirSize, continueOnError) ==
    IF paths = <<>> THEN [n |-> 0, errors |-> 0, aborted |-> FALSE]
    ELSE LET kind == Head(paths)
             found == IF kind = "pdf" THEN 1
                      ELSE IF kind \in {"dir", "baddir"} THEN dirSize ELSE 0
             failed == kind \in {"missing", "baddir"}
             rest == Collect(Tail(paths), dirSize, continueOnError)
         IN IF failed /\ ~continueOnError
            THEN [n |-> 0, errors |-> 1, aborted |-> TRUE]
            ELSE [n |-> found + rest.n,
                  errors |-> (IF failed THEN 1 ELSE 0) + rest.errors,
                  aborted |-> rest.aborted]

\* ProcessResult
Result(file, pages) == [file |-> file, OutputDir |-> OutputName(file), Pages |-> pages]

\* checkOutputDir: <<exists, error>>; statFails: os.Stat of output.md fails
\* with an error other than "does not exist"
checkOutputDirNever(dir, statFails) == <<FALSE, FALSE>>
checkOutputDir(dir, statFails) ==
    IF ~dir.exists THEN <<FALSE, FALSE>>
    ELSE IF statFails THEN <<FALSE, TRUE>>
    ELSE IF ~dir.md.there THEN <<FALSE, FALSE>>
    ELSE IF Len(dir.md.data) = 0 THEN <<FALSE, FALSE>>
    ELSE <<TRUE, FALSE>>

\* if !opts.ContinueOnError { return results, err }
KeepGoingNever(continueOnError) == FALSE
KeepGoingAlways(continueOnError) == TRUE
KeepGoing(continueOnError) == continueOnError

\* lines 571-579: ProcessFile returned an error
FileFailed(j) ==
    job' = IF KeepGoing(j.continueOnError)
           THEN [j EXCEPT !.pc = "loop", !.errors = @ + 1, !.i = @ + 1,
                          !.outcome = Append(@, "fail")]
           ELSE [j EXCEPT !.pc = "done", !.errors = @ + 1,
                          !.outcome = Append(@, "fail"),
                          !.ret = [err |-> "file failed", results |-> j.results]]

\* lines 581-586: ProcessFile returned a result
FileDone(j, result) ==
    job' = [j EXCEPT !.pc = "loop", !.i = @ + 1,
                     !.results = Append(@, result),
                     !.skippedFiles = IF result.Pages = 0 THEN @ + 1 ELSE @,
                     !.outcome = Append(@, "ok")]

\* ProcessMultipleFiles up to the loop over the collected files
ProcessMultipleFiles ==
    /\ job.pc = "idle"
    /\ call.pc = "idle"
    /\ \E paths \in PathLists, dirSize \in 0..MaxFiles,
          continueOnError \in BOOLEAN, includeImages \in BOOLEAN :
        LET c == Collect(paths, dirSize, continueOnError)
            start == [NoJob EXCEPT !.continueOnError = continueOnError,
                                   !.includeImages = includeImages,
                                   !.errors = c.errors]
        IN /\ c.n <= MaxFiles
           /\ job' = IF c.aborted
                     THEN [start EXCEPT !.pc = "done",
                                        !.ret = [err |-> "collect", results |-> <<>>]]
                     ELSE IF c.n = 0
                     THEN [start EXCEPT !.pc = "done",
                                        !.ret = [err |-> "no files", results |-> <<>>]]
                     ELSE [start EXCEPT !.pc = "loop", !.files = [k \in 1..c.n |-> k]]
    /\ UNCHANGED <<clientVars, call, net, rot, conc, fs, mat>>

\* the files of a batch: one that UploadPDF accepts, one that is too large
BatchUploadArgs == { Arg("file", SizeLimit), Arg("file", SizeLimit + 1) }

\* one pass of the loop: ProcessFile from its entry to its return or to
\* its call of UploadPDF
ProcessFile ==
    /\ job.pc = "loop"
    /\ job.i < Len(job.files)
    /\ \E fault \in {"none", "mkdir", "stat"} :
        LET file == job.files[job.i + 1]
            name == OutputName(file)
            made == [fs[name] EXCEPT !.exists = TRUE]
            chk == checkOutputDir(made, fault = "stat")
            entered == [job EXCEPT !.attempted = Append(@, file), !.fault = fault]
        IN \* MkdirAll of a directory that exists does not fail
           /\ fault = "mkdir" => ~fs[name].exists
           /\ IF fault = "mkdir"
              THEN FileFailed(entered) /\ UNCHANGED <<fs, call, net>>
              ELSE /\ fs' = [fs EXCEPT ![name] = made]
                   /\ IF chk[2] THEN FileFailed(entered) /\ UNCHANGED <<call, net>>
                      ELSE IF chk[1]
                      THEN FileDone(entered, Result(file, 0)) /\ UNCHANGED <<call, net>>
                      ELSE /\ job' = [entered EXCEPT !.pc = "upload"]
                           /\ \E arg \in BatchUploadArgs : Enter("upload", "", arg)
    /\ UNCHANGED <<clientVars, rot, conc, mat>>

\* UploadPDF has returned: GetSignedURL with the credential at the cursor
AfterUploadOtherKey ==
    /\ job.pc = "upload"
    /\ call.pc = "done"
    /\ IF call.ret.err # NoErr
       THEN FileFailed(job) /\ call' = Idle /\ net' = NoNet
       ELSE /\ job' = [job EXCEPT !.pc = "signed", !.apiKey = getNextAPIKey[1]]
            /\ Begin("signed", getNextAPIKey[1], IdArg)
    /\ UNCHANGED <<clientVars, rot, conc, fs, mat>>

\* UploadPDF has returned: GetSignedURL with the key it used
AfterUpload ==
    /\ job.pc = "upload"
    /\ call.pc = "done"
    /\ IF call.ret.err # NoErr
       THEN FileFailed(job) /\ call' = Idle /\ net' = NoNet
       ELSE /\ job' = [job EXCEPT !.pc = "signed", !.apiKey = call.ret.key]
            /\ Begin("signed", call.ret.key, IdArg)
    /\ UNCHANGED <<clientVars, rot, conc, fs, mat>>

\* GetSignedURL has returned: processDocument calls ProcessOCR
AfterSigned ==
    /\ job.pc = "signed"
    /\ call.pc = "done"
    /\ IF call.ret.err # NoErr
       THEN FileFailed(job) /\ call' = Idle /\ net' = NoNet
       ELSE /\ job' = [job EXCEPT !.pc = "ocr"]
            /\ \E arg \in {URLArg, BadURLArg} : Enter("ocr", job.apiKey, arg)
    /\ UNCHANGED <<clientVars, rot, conc, fs, mat>>

\* the responses of a batch, and what can go wrong on the disk
BatchResponses == { [pages |-> <<>>], [pages |-> <<Page(<<"A">>, <<>>)>>] }
BatchFaults == { {}, {Fault("md", <<>>)} }

\* ProcessOCR has returned: saveResults whatever it returned
AfterOCRSavesAnyway ==
    /\ job.pc = "ocr"
    /\ call.pc = "done"
    /\ call' = Idle
    /\ net' = NoNet
    /\ \E resp \in BatchResponses, faults \in BatchFaults :
          LET file == job.files[job.i + 1]
              name == OutputName(file)
              metadata == Metadata("file", Len(resp.pages), job.includeImages)
              ret == saveResults(resp, fs[name], metadata, job.includeImages, faults,
                                 [p \in 1..Len(resp.pages) |-> <<>>])
          IN /\ fs' = [fs EXCEPT ![name] = ret.dir]
             /\ IF ret.err # "" \/ call.ret.err # NoErr THEN FileFailed(job)
                ELSE FileDone(job, Result(file, ret.pages))
    /\ UNCHANGED <<clientVars, rot, conc, mat>>

\* ProcessOCR has returned: the rest of processDocument
AfterOCR ==
    /\ job.pc = "ocr"
    /\ call.pc = "done"
    /\ call' = Idle
    /\ net' = NoNet
    /\ IF call.ret.err # NoErr
       THEN FileFailed(job) /\ fs' = fs
       ELSE \E resp \in BatchResponses, faults \in BatchFaults :
              LET file == job.files[job.i + 1]
                  name == OutputName(file)
                  metadata == Metadata("file", Len(resp.pages), job.includeImages)
                  ret == saveResults(resp, fs[name], metadata, job.includeImages, faults,
                                     [p \in 1..Len(resp.pages) |-> <<>>])
              IN /\ fs' = [fs EXCEPT ![name] = ret.dir]
                 /\ IF ret.err # "" THEN FileFailed(job)
                    ELSE FileDone(job, Result(file, ret.pages))
    /\ UNCHANGED <<clientVars, rot, conc, mat>>

\* lines 589-602: after the loop
BatchReturn ==
    /\ job.pc = "loop"
    /\ job.i >= Len(job.files)
    /\ job' = [job EXCEPT !.pc = "done",
                          !.ret = IF Len(job.results) = 0
                                  THEN [err |-> "all failed", results |-> <<>>]
                                  ELSE [err |-> "", results |-> job.results]]
    /\ UNCHANGED <<clientVars, call, net, rot, conc, fs, mat>>

\* what an attempt meets during a batch
BatchReplies ==
    { [kind |-> "status", code |-> 200, body |-> "json"],
      [kind |-> "status", code |-> 500, body |-> "b1"] }
BatchOutcomes(op) == BatchReplies
BatchAttempt == AttemptWith(BatchOutcomes(call.op))

-----------------------------------------------------------------------------
(* ProcessMultipleFiles on paths with names: the files it collects and the *)
(* output name it gives to each.  A name is a sequence of characters, a    *)
(* path the sequence of its names.                                          *)

\* strings.ToLower on the letters the names hold
LowerOf(c) ==
    CASE c = "P" -> "p" [] c = "D" -> "d" [] c = "F" -> "f" [] c = "B" -> "b"
      [] OTHER -> c
ToLower(s) == [i \in 1..Len(s) |-> LowerOf(s[i])]

\* filepath.Base and filepath.Ext: the last name of the path, and its
\* suffix from the last dot on ("" without a dot)
Base(path) == IF path = <<>> THEN <<".">> ELSE path[Len(path)]
RECURSIVE LastDot(_, _)
LastDot(name, i) ==
    IF i = 0 THEN 0 ELSE IF name[i] = "." THEN i ELSE LastDot(name, i - 1)
Ext(path) ==
    LET name == IF path = <<>> THEN <<>> ELSE path[Len(path)]
        d == LastDot(name, Len(name))
    IN IF d = 0 THEN <<>> ELSE Drop(name, d - 1)

TrimSuffix(s, suffix) ==
    IF Len(s) >= Len(suffix) /\ Drop(s, Len(s) - Len(suffix)) = suffix
    THEN Take(s, Len(s) - Len(suffix)) ELSE s

PdfExt == <<".", "p", "d", "f">>

\* strings.ToLower(filepath.Ext(path)) == ".pdf"
IsPDFCaseSensitive(path) == Ext(path) = PdfExt
IsPDF(path) == ToLower(Ext(path)) = PdfExt

\* %d of a number that is not negative
DigitChars == <<"0", "1", "2", "3", "4", "5", "6", "7", "8", "9">>
RECURSIVE Itoa(_)
Itoa(n) ==
    IF n < 10 THEN <<DigitChars[n + 1]>>
    ELSE Itoa(n \div 10) \o <<DigitChars[(n % 10) + 1]>>

\* the entries of the disk: a file, a directory with its entries in the
\* order in which ReadDir lists them, a directory that cannot be read
File(name) == [name |-> name, dir |-> FALSE, readable |-> TRUE, kids |-> <<>>]
Dir(name, kids) == [name |-> name, dir |-> TRUE, readable |-> TRUE, kids |-> kids]
Locked(name) == [name |-> name, dir |-> TRUE, readable |-> FALSE, kids |-> <<>>]

\* the names on the disk
Name ==
    [a |-> <<"a", ".", "p", "d", "f">>,
     b |-> <<"b", ".", "P", "D", "F">>,
     c |-> <<"c", ".", "P", "d", "f">>,
     e |-> <<"e", ".", "p", "d", "f">>,
     g |-> <<"g", ".", "p", "d", "f">>,
     z |-> <<"z", ".", "p", "d", "f">>,
     txt |-> <<"n", ".", "t", "x", "t">>,
     bak |-> <<"o", ".", "p", "d", "f", ".", "b">>,
     noExt |-> <<"p", "d", "f">>,
     docs |-> <<"d", ".", "p", "d", "f">>,
     in |-> <<"i", "n">>,
     sub |-> <<"s", "u", "b">>,
     bad |-> <<"b", "a", "d">>,
     locked |-> <<"l">>,
     empty |-> <<"e">>,
     gone |-> <<"x", ".", "p", "d", "f">>]

\* the disk the batches run on
Disk ==
    Dir(<<>>, << File(Name.a), File(Name.b),
                 Dir(Name.bad, << File(Name.g), Locked(Name.locked), File(Name.z) >>),
                 Dir(Name.docs, << File(Name.e) >>),
                 Dir(Name.empty, <<>>),
                 Dir(Name.in, << File(Name.a), File(Name.txt),
                                Dir(Name.sub, << File(Name.c), Dir(Name.docs, <<>>) >>) >>),
                 File(Name.txt), File(Name.bak), File(Name.noExt) >>)

NoEntry == [name |-> <<>>, dir |-> FALSE, readable |-> FALSE, kids |-> <<>>]

\* os.Stat(path): the entry, or NoEntry when there is none
RECURSIVE Lookup(_, _)
Lookup(node, path) ==
    IF path = <<>> THEN node
    ELSE LET hits == { k \in 1..Len(node.kids) : node.kids[k].name = Head(path) }
         IN IF ~node.dir \/ hits = {} THEN NoEntry
            ELSE Lookup(node.kids[CHOOSE k \in hits : TRUE], Tail(path))
Stat(path) == Lookup(Disk, path)

\* filepath.Walk(path, fn) with the function of lines 521-529: the files
\* appended, and whether the walk returned an error.  A directory that
\* cannot be read ends the walk; what was appended before stays
RECURSIVE Walk(_, _), WalkKids(_, _, _)
Walk(path, node) ==
    IF ~node.dir
    THEN [files |-> IF IsPDF(path) THEN <<path>> ELSE <<>>, err |-> FALSE]
    ELSE IF ~node.readable THEN [err |-> TRUE, files |-> <<>>]
    ELSE WalkKids(path, node.kids, 1)
WalkKids(path, kids, k) ==
    IF k > Len(kids) THEN [err |-> FALSE, files |-> <<>>]
    ELSE LET first == Walk(Append(path, kids[k].name), kids[k]) IN
         IF first.err THEN first
         ELSE LET rest == WalkKids(path, kids, k + 1)
              IN [files |-> first.files \o rest.files, err |-> rest.err]

\* the paths given to a batch
ArgPaths ==
    { <<Name.a>>, <<Name.b>>, <<Name.txt>>, <<Name.bak>>, <<Name.noExt>>, <<Name.docs>>,
      <<Name.in>>, <<Name.in, Name.sub>>, <<Name.in, Name.a>>, <<Name.bad>>, <<Name.empty>>,
      <<Name.gone>> }
ArgLists == UNION { [1..n -> ArgPaths] : n \in 0..MaxPaths }

CustomNames == { <<>>, <<"o", "u", "t">> }

\* lines 507-544 on one path after the other: filesToProcess, the errors,
\* the paths skipped with a warning, and whether the collection returned
RECURSIVE CollectFiles(_, _)
CollectFiles(paths, continueOnError) ==
    IF paths = <<>>
    THEN [files |-> <<>>, errors |-> 0, aborted |-> FALSE, warned |-> <<>>]
    ELSE LET path == Head(paths)
             info == Stat(path)
             walk == Walk(path, info)
             failed == info = NoEntry \/ (info.dir /\ walk.err)
             found == IF info = NoEntry THEN <<>>
                      ELSE IF info.dir THEN walk.files
                      ELSE IF IsPDF(path) THEN <<path>> ELSE <<>>
             warn == info # NoEntry /\ ~info.dir /\ ~IsPDF(path)
             rest == CollectFiles(Tail(paths), continueOnError)
         IN IF failed /\ ~continueOnError
            THEN [files |-> <<>>, errors |-> 1, aborted |-> TRUE, warned |-> <<>>]
            ELSE [files |-> found \o rest.files,
                  errors |-> (IF failed THEN 1 ELSE 0) + rest.errors,
                  warned |-> (IF warn THEN <<path>> ELSE <<>>) \o rest.warned,
                  aborted |-> rest.aborted]

\* fmt.Sprintf("%s_%d", custom, i+1), i the index of the loop
NumberedFromZero(custom, i) == custom \o <<"_">> \o Itoa(i)
Numbered(custom, i) == custom \o <<"_">> \o Itoa(i + 1)

\* lines 559-567: the CustomOutputName ProcessFile is called with
FileOptsName(custom, files, i) ==
    IF custom = <<>> THEN TrimSuffix(Base(files[i + 1]), Ext(files[i + 1]))
    ELSE IF Len(files) > 1 THEN Numbered(custom, i)
    ELSE custom

\* lines 59-63 of ProcessFile: the name of the output directory
ProcessFileName(filePath, custom) ==
    IF custom = <<>> THEN TrimSuffix(Base(filePath), Ext(filePath)) ELSE custom

NoListing == [pc |-> "idle", paths |-> <<>>, continueOnError |-> FALSE,
              customOutputName |-> <<>>, files |-> <<>>, errors |-> 0,
              warned |-> <<>>, i |-> 0, names |-> <<>>, results |-> <<>>,
              ret |-> [err |-> "", results |-> <<>>]]

\* ProcessMultipleFiles up to the loop over the collected files
ListFiles ==
    /\ job.pc = "idle"
    /\ LET c == CollectFiles(job.paths, job.continueOnError)
           start == [job EXCEPT !.errors = c.errors, !.warned = c.warned]
       IN job' = IF c.aborted
                 THEN [start EXCEPT !.pc = "done",
                                    !.ret = [err |-> "collect", results |-> <<>>]]
                 ELSE IF Len(c.files) = 0
                 THEN [start EXCEPT !.pc = "done",
                                    !.ret = [err |-> "no files", results |-> <<>>]]
                 ELSE [start EXCEPT !.pc = "loop", !.files = c.files]
    /\ UNCHANGED <<clientVars, call, net, rot, conc, fs, mat>>

\* one pass of the loop: the name is chosen and ProcessFile returns, with a
\* result in the directory of that name or with an error
NamedFile ==
    /\ job.pc = "loop"
    /\ job.i < Len(job.files)
    /\ \E ok \in BOOLEAN :
        LET filePath == job.files[job.i + 1]
            custom == FileOptsName(job.customOutputName, job.files, job.i)
            outputName == ProcessFileName(filePath, custom)
            named == [job EXCEPT !.names = Append(@, outputName)]
        IN job' = IF ok
                  THEN [named EXCEPT !.i = @ + 1,
                           !.results = Append(@, [file |-> filePath,
                                                  OutputDir |-> outputName])]
                  ELSE IF KeepGoing(job.continueOnError)
                  THEN [named EXCEPT !.i = @ + 1, !.errors = @ + 1]
                  ELSE [named EXCEPT !.pc = "done", !.errors = @ + 1,
                           !.ret = [err |-> "file failed", results |-> job.results]]
    /\ UNCHANGED <<clientVars, call, net, rot, conc, fs, mat>>

\* lines 589-602: the return after the loop
ListReturn ==
    /\ job.pc = "loop"
    /\ job.i = Len(job.files)
    /\ job' = [job EXCEPT !.pc = "done",
                  !.ret = IF Len(job.results) = 0
                          THEN [err |-> "all failed", results |-> <<>>]
                          ELSE [err |-> "", results |-> job.results]]
    /\ UNCHANGED <<clientVars, call, net, rot, conc, fs, mat>>

\* the state of a batch whose files are processed under their names
NoNaming == [pc |-> "idle", paths |-> <<>>, continueOnError |-> FALSE,
             customOutputName |-> <<>>, files |-> <<>>, errors |-> 0,
             warned |-> <<>>, i |-> 0, names |-> <<>>, outcome |-> <<>>,
             results |-> <<>>, skippedFiles |-> 0,
             ret |-> [err |-> "", results |-> <<>>]]

\* the directory filepath.Join(opts.OutputDir, outputName) on the disk
DirOf(outputName) == IF outputName \in DOMAIN fs THEN fs[outputName] ELSE EmptyDir
WithDir(outputName, dir) ==
    [n \in DOMAIN fs \cup {outputName} |-> IF n = outputName THEN dir ELSE fs[n]]

\* one pass of the loop on a named file: the name is chosen, ProcessFile
\* makes the directory, and either skips, or runs the remote calls and
\* saves the response, or returns the error of a remote call
ProcessNamedFile ==
    /\ job.pc = "loop"
    /\ job.i < Len(job.files)
    /\ \E remote \in {"ok", "fail"}, resp \in BatchResponses :
        LET filePath == job.files[job.i + 1]
            custom == FileOptsName(job.customOutputName, job.files, job.i)
            outputName == ProcessFileName(filePath, custom)
            made == [DirOf(outputName) EXCEPT !.exists = TRUE]
            chk == checkOutputDir(made, FALSE)
            saved == saveResults(resp, made, Metadata("file", Len(resp.pages), FALSE),
                                 FALSE, {}, [p \in 1..Len(resp.pages) |-> <<>>])
            named == [job EXCEPT !.names = Append(@, outputName)]
            done(pages, how) ==
                [named EXCEPT !.i = @ + 1,
                     !.results = Append(@, [file |-> filePath, OutputDir |-> outputName,
                                            Pages |-> pages]),
                     !.skippedFiles = IF pages = 0 THEN @ + 1 ELSE @,
                     !.outcome = Append(@, how)]
        IN IF chk[1]
           THEN /\ fs' = WithDir(outputName, made)
                /\ job' = done(0, "skip")
           ELSE IF remote = "ok"
           THEN /\ fs' = WithDir(outputName, saved.dir)
                /\ job' = done(saved.pages, "ok")
           ELSE /\ fs' = WithDir(outputName, made)
                /\ job' = IF KeepGoing(job.continueOnError)
                          THEN [named EXCEPT !.i = @ + 1, !.errors = @ + 1,
                                             !.outcome = Append(@, "fail")]
                          ELSE [named EXCEPT !.pc = "done", !.errors = @ + 1,
                                   !.outcome = Append(@, "fail"),
                                   !.ret = [err |-> "file failed", results |-> job.results]]
    /\ UNCHANGED <<clientVars, call, net, rot, conc, mat>>

\* ProcessFile called again and again on one file with the same options
MaxRuns == 3
NoRuns == [pc |-> "runs", includeImages |-> FALSE, outcome |-> <<>>]
RunResponses == BatchResponses \cup { [pages |-> <<Page(<<"A">>, <<>>), Page(<<"B">>, <<>>)>>] }
RunFaults == { {}, {Fault("md", <<>>)}, {Fault("txt", <<>>)}, {Fault("meta", <<>>)} }

\* one ProcessFile from its entry to its return: the directory is made and
\* checked, then the three remote calls, then saveResults
ProcessFileRun ==
    /\ job.pc = "runs"
    /\ Len(job.outcome) < MaxRuns
    /\ \E fault \in {"none", "mkdir", "stat"}, remote \in {"ok", "fail"},
          resp \in RunResponses, faults \in RunFaults :
        LET name == OutputName(1)
            made == [fs[name] EXCEPT !.exists = TRUE]
            chk == checkOutputDir(made, fault = "stat")
            metadata == Metadata("file", Len(resp.pages), job.includeImages)
            saved == saveResults(resp, made, metadata, job.includeImages, faults,
                                 [p \in 1..Len(resp.pages) |-> <<>>])
            returns(how) == job' = [job EXCEPT !.outcome = Append(@, how)]
        IN \* MkdirAll of a directory that exists does not fail
           /\ fault = "mkdir" => ~fs[name].exists
           /\ IF fault = "mkdir" THEN fs' = fs /\ returns("fail")
              ELSE IF chk[2] THEN fs' = [fs EXCEPT ![name] = made] /\ returns("fail")
              ELSE IF chk[1] THEN fs' = [fs EXCEPT ![name] = made] /\ returns("skip")
              ELSE IF remote = "fail"
              THEN fs' = [fs EXCEPT ![name] = made] /\ returns("fail")
              ELSE /\ fs' = [fs EXCEPT ![name] = saved.dir]
                   /\ returns(IF saved.err # "" THEN "fail" ELSE "ok")
    /\ UNCHANGED <<clientVars, call, net, rot, conc, mat>>

-----------------------------------------------------------------------------
(* The rotator called from several goroutines: each of getNextAPIKey,      *)
(* getNextBaseURL and getCurrentBaseURL in the steps of its body.           *)

MaxGoroutines == 2
Goroutines == 1..MaxGoroutines
RotFns == {"getNextAPIKey", "getNextBaseURL", "getCurrentBaseURL"}

GIdle == [pc |-> "idle", fn |-> "", tmp |-> 0, ret |-> ""]

\* order: the goroutines in the order in which they took c.mu
NewConc == [mu |-> 0, g |-> [i \in Goroutines |-> GIdle],
            keyStart |-> currentKeyIndex, urlStart |-> currentURLIndex, order |-> <<>>]

PoolOf(fn) == IF fn = "getNextAPIKey" THEN apiKeys ELSE baseURLs
CursorOf(fn) == IF fn = "getNextAPIKey" THEN currentKeyIndex ELSE currentURLIndex

\* goroutine i calls one of the three functions
GoCall(i) ==
    /\ conc.g[i].pc = "idle"
    /\ \E fn \in RotFns : conc' = [conc EXCEPT !.g[i] = [GIdle EXCEPT !.pc = "lock", !.fn = fn]]
    /\ UNCHANGED <<clientVars, call, net, rot, fs, mat, job>>

\* c.mu.Lock()
LockNoWait(i) ==
    /\ conc.g[i].pc = "lock"
    /\ conc' = [conc EXCEPT !.mu = i, !.g[i].pc = "read", !.order = Append(@, i)]
    /\ UNCHANGED <<clientVars, call, net, rot, fs, mat, job>>
Lock(i) ==
    /\ conc.g[i].pc = "lock"
    /\ conc.mu = 0
    /\ conc' = [conc EXCEPT !.mu = i, !.g[i].pc = "read", !.order = Append(@, i)]
    /\ UNCHANGED <<clientVars, call, net, rot, fs, mat, job>>

\* the empty-pool return, or the read of the element at the cursor
ReadElement(i) ==
    LET fn == conc.g[i].fn IN
    /\ conc.g[i].pc = "read"
    /\ conc' = IF Len(PoolOf(fn)) = 0
               THEN [conc EXCEPT !.g[i].pc = "unlock",
                                 !.g[i].ret = IF fn = "getNextAPIKey" THEN ""
                                              ELSE DefaultBaseURL]
               ELSE [conc EXCEPT !.g[i].pc = IF fn = "getCurrentBaseURL" THEN "unlock"
                                             ELSE "load",
                                 !.g[i].ret = PoolOf(fn)[CursorOf(fn) + 1]]
    /\ UNCHANGED <<clientVars, call, net, rot, fs, mat, job>>

\* the cursor is read for (cursor + 1) % len
LoadCursor(i) ==
    /\ conc.g[i].pc = "load"
    /\ conc' = [conc EXCEPT !.g[i].pc = "store", !.g[i].tmp = CursorOf(conc.g[i].fn)]
    /\ UNCHANGED <<clientVars, call, net, rot, fs, mat, job>>

\* the cursor is assigned
StoreCursor(i) ==
    LET fn == conc.g[i].fn
        new == Advance(conc.g[i].tmp, Len(PoolOf(fn)))
    IN
    /\ conc.g[i].pc = "store"
    /\ conc' = [conc EXCEPT !.g[i].pc = "unlock"]
    /\ IF fn = "getNextAPIKey"
       THEN currentKeyIndex' = new /\ UNCHANGED currentURLIndex
       ELSE currentURLIndex' = new /\ UNCHANGED currentKeyIndex
    /\ UNCHANGED <<apiKeys, baseURLs, maxRetries, retryDifferentEndpoint,
                   call, net, rot, fs, mat, job>>

\* the deferred c.mu.Unlock(), and the return
Unlock(i) ==
    /\ conc.g[i].pc = "unlock"
    /\ conc' = [conc EXCEPT !.mu = 0, !.g[i].pc = "done"]
    /\ UNCHANGED <<clientVars, call, net, rot, fs, mat, job>>


-----------------------------------------------------------------------------
(* Specifications.                                                         *)

\* NewClient: the pools as given, each cursor at rnd.Intn(len(pool)), or 0
\* for an empty pool; SetMaxRetries and SetRetryDifferentEndpoint
CursorRange(pool) == IF Len(pool) = 0 THEN {0} ELSE 0..(Len(pool) - 1)

NewClient ==
    /\ apiKeys \in KeyPools
    /\ baseURLs \in URLPools
    /\ currentKeyIndex \in CursorRange(apiKeys)
    /\ currentURLIndex \in CursorRange(baseURLs)
    /\ maxRetries \in (-1)..MaxRetriesBound
    /\ retryDifferentEndpoint \in BOOLEAN

NoRun == [keyStart |-> 0, keys |-> <<>>, urlStart |-> 0, urls |-> <<>>, cur |-> "none"]

\* no goroutines besides the caller's
NoConc == [mu |-> 0]

\* no processor at work
NoProcessor ==
    /\ fs = NoDirs
    /\ mat = NoMat
    /\ job = NoJob
    /\ conc = NoConc

Init ==
    /\ NewClient
    /\ call = Idle
    /\ net = NoNet
    /\ rot = NoRun
    /\ NoProcessor

InitRot ==
    /\ NewClient
    /\ call = Idle
    /\ net = NoNet
    /\ rot = NewRun
    /\ NoProcessor

\* the three operations of the client, called one after another
Next ==
    \/ Invoke
    \/ OuterLoop
    \/ NextEndpoint
    \/ Attempt
    \/ AfterInner
    \/ Finish

Spec == Init /\ [][Next]_vars

NextRot ==
    \/ RotNextKey
    \/ RotNextURL
    \/ RotCurrentURL
    \/ RotRestart

SpecRot == InitRot /\ [][NextRot]_vars

\* conversions of stored responses; the client takes no part
InitMd ==
    /\ apiKeys = <<"k1">>
    /\ baseURLs = <<DefaultBaseURL>>
    /\ currentKeyIndex = 0
    /\ currentURLIndex = 0
    /\ maxRetries = 3
    /\ retryDifferentEndpoint = TRUE
    /\ call = Idle
    /\ net = NoNet
    /\ rot = NoRun
    /\ NoProcessor

NextMd ==
    \/ ConvertJSONToMarkdown
    \/ ConvertAgain

SpecMd == InitMd /\ [][NextMd]_vars

\* goroutines that share one client and call its rotator once each
InitConc ==
    /\ apiKeys \in KeyPools
    /\ baseURLs \in URLPools
    /\ currentKeyIndex \in CursorRange(apiKeys)
    /\ currentURLIndex \in CursorRange(baseURLs)
    /\ maxRetries = 3
    /\ retryDifferentEndpoint = TRUE
    /\ call = Idle
    /\ net = NoNet
    /\ rot = NoRun
    /\ fs = NoDirs
    /\ mat = NoMat
    /\ job = NoJob
    /\ conc = NewConc

NextConc ==
    \/ \E i \in Goroutines : GoCall(i)
    \/ \E i \in Goroutines : Lock(i)
    \/ \E i \in Goroutines : ReadElement(i)
    \/ \E i \in Goroutines : LoadCursor(i)
    \/ \E i \in Goroutines : StoreCursor(i)
    \/ \E i \in Goroutines : Unlock(i)

SpecConc == InitConc /\ [][NextConc]_vars

\* batches on the paths of the disk, with and without a custom output name
InitList ==
    /\ apiKeys = <<"k1", "k2">>
    /\ baseURLs = <<"u1", "u2">>
    /\ currentKeyIndex = 0
    /\ currentURLIndex = 0
    /\ maxRetries = 3
    /\ retryDifferentEndpoint = TRUE
    /\ call = Idle
    /\ net = NoNet
    /\ rot = NoRun
    /\ fs = NoDirs
    /\ mat = NoMat
    /\ conc = NoConc
    /\ \E paths \in ArgLists, continueOnError \in BOOLEAN, custom \in CustomNames :
          job = [NoListing EXCEPT !.paths = paths,
                                  !.continueOnError = continueOnError,
                                  !.customOutputName = custom]

NextList ==
    \/ ListFiles
    \/ NamedFile
    \/ ListReturn

SpecList == InitList /\ [][NextList]_vars

\* another goroutine's call of the same client takes an endpoint from the
\* rotator between two steps of this call
OtherGoroutine ==
    /\ call.pc \notin {"idle", "done"}
    /\ currentURLIndex' = getNextBaseURL[2]
    /\ UNCHANGED <<apiKeys, baseURLs, maxRetries, retryDifferentEndpoint,
                   currentKeyIndex, call, net, rot, conc, fs, mat, job>>

\* a client with one credential and the policy enabled, on every pool
InitShared ==
    /\ apiKeys = <<"k1">>
    /\ currentKeyIndex = 0
    /\ baseURLs \in URLPools
    /\ currentURLIndex \in CursorRange(baseURLs)
    /\ maxRetries \in 0..MaxRetriesBound
    /\ retryDifferentEndpoint = TRUE
    /\ call = Idle
    /\ net = NoNet
    /\ rot = NoRun
    /\ NoProcessor

\* what an attempt meets there: success, a status that ends the attempts
\* on the endpoint, one that is retried in place
SharedReplies ==
    { [kind |-> "status", code |-> 200, body |-> "json"],
      [kind |-> "status", code |-> 500, body |-> "b1"],
      [kind |-> "status", code |-> 503, body |-> "b1"] }
SharedOutcomes(op) == SharedReplies
SharedAttempt == AttemptWith(SharedOutcomes(call.op))

\* one call at a time of a client that other goroutines use as well
NextShared ==
    \/ InvokeUpload
    \/ OuterLoop
    \/ NextEndpoint
    \/ SharedAttempt
    \/ AfterInner
    \/ Finish
    \/ OtherGoroutine

SpecShared == InitShared /\ [][NextShared]_vars

\* ProcessFile on the one file of a batch, by a client with two
\* credentials, three endpoints and one retry
InitFile ==
    /\ apiKeys = <<"k1", "k2">>
    /\ baseURLs = <<"u1", "u2", "u3">>
    /\ currentKeyIndex \in CursorRange(apiKeys)
    /\ currentURLIndex \in CursorRange(baseURLs)
    /\ maxRetries = 1
    /\ retryDifferentEndpoint = TRUE
    /\ call = Idle
    /\ net = NoNet
    /\ rot = NoRun
    /\ fs \in [{ OutputName(i) : i \in 1..MaxFiles } -> {EmptyDir}]
    /\ mat = NoMat
    /\ conc = NoConc
    /\ \E continueOnError \in BOOLEAN, includeImages \in BOOLEAN :
          job = [NoJob EXCEPT !.pc = "loop", !.files = <<1>>,
                              !.continueOnError = continueOnError,
                              !.includeImages = includeImages]

NextFile ==
    \/ ProcessFile
    \/ OuterLoop
    \/ NextEndpoint
    \/ SharedAttempt
    \/ AfterInner
    \/ AfterUpload
    \/ AfterSigned
    \/ AfterOCR
    \/ BatchReturn

SpecFile == InitFile /\ [][NextFile]_vars

\* batches on the paths of the disk into an output directory that is new
InitNamed ==
    /\ apiKeys = <<"k1", "k2">>
    /\ baseURLs = <<"u1", "u2">>
    /\ currentKeyIndex = 0
    /\ currentURLIndex = 0
    /\ maxRetries = 3
    /\ retryDifferentEndpoint = TRUE
    /\ call = Idle
    /\ net = NoNet
    /\ rot = NoRun
    /\ fs = <<>>
    /\ mat = NoMat
    /\ conc = NoConc
    /\ \E paths \in ArgLists, continueOnError \in BOOLEAN, custom \in CustomNames :
          job = [NoNaming EXCEPT !.paths = paths,
                                 !.continueOnError = continueOnError,
                                 !.customOutputName = custom]

NextNamed ==
    \/ ListFiles
    \/ ProcessNamedFile
    \/ ListReturn

SpecNamed == InitNamed /\ [][NextNamed]_vars

\* runs of ProcessFile on one file, into an output directory that is new
InitRuns ==
    /\ apiKeys = <<"k1", "k2">>
    /\ baseURLs = <<"u1", "u2">>
    /\ currentKeyIndex = 0
    /\ currentURLIndex = 0
    /\ maxRetries = 3
    /\ retryDifferentEndpoint = TRUE
    /\ call = Idle
    /\ net = NoNet
    /\ rot = NoRun
    /\ fs = NoDirs
    /\ mat = NoMat
    /\ conc = NoConc
    /\ \E includeImages \in BOOLEAN : job = [NoRuns EXCEPT !.includeImages = includeImages]

NextRuns == ProcessFileRun

SpecRuns == InitRuns /\ [][NextRuns]_vars

\* conversions of stored responses whose images are named x, x.jpeg and y
NextImg ==
    \/ ConvertImages
    \/ ConvertAgain

SpecImg == InitMd /\ [][NextImg]_vars

\* conversions of documents, and of the metadata.json of a processing run
InitConv ==
    /\ apiKeys = <<"k1">>
    /\ baseURLs = <<DefaultBaseURL>>
    /\ currentKeyIndex = 0
    /\ currentURLIndex = 0
    /\ maxRetries = 3
    /\ retryDifferentEndpoint = TRUE
    /\ call = Idle
    /\ net = NoNet
    /\ rot = NoRun
    /\ fs = [d \in {OutputName(1), OutputName(2)} |-> EmptyDir]
    /\ mat = NoConv
    /\ job = NoJob
    /\ conc = NoConc

NextConv ==
    \/ ConvertFile
    \/ ProcessDocument
    \/ ConvertMetadata

SpecConv == InitConv /\ [][NextConv]_vars

\* calls of UploadPDF on files of every size
NextUpload ==
    \/ InvokeUpload
    \/ OuterLoop
    \/ NextEndpoint
    \/ BatchAttempt
    \/ AfterInner
    \/ Finish

SpecUpload == Init /\ [][NextUpload]_vars

\* an output directory left by an earlier run: a finished one, and one
\* whose output.md is empty (a response without pages)
DoneDir ==
    saveResults([pages |-> <<Page(<<"A">>, <<>>)>>], [EmptyDir EXCEPT !.exists = TRUE],
                Metadata("file", 1, FALSE), FALSE, {}, <<<<>>>>).dir
EmptyMdDir ==
    saveResults([pages |-> <<>>], [EmptyDir EXCEPT !.exists = TRUE],
                Metadata("file", 0, FALSE), FALSE, {}, <<>>).dir

\* one batch of files, on output directories that earlier runs have left
InitBatch ==
    /\ apiKeys = <<"k1", "k2">>
    /\ baseURLs = <<"u1", "u2">>
    /\ currentKeyIndex \in CursorRange(apiKeys)
    /\ currentURLIndex \in CursorRange(baseURLs)
    /\ maxRetries = 0
    /\ retryDifferentEndpoint = TRUE
    /\ call = Idle
    /\ net = NoNet
    /\ rot = NoRun
    /\ fs \in [{ OutputName(i) : i \in 1..MaxFiles } -> {EmptyDir, DoneDir, EmptyMdDir}]
    /\ mat = NoMat
    /\ job = NoJob
    /\ conc = NoConc

NextBatch ==
    \/ ProcessMultipleFiles
    \/ ProcessFile
    \/ OuterLoop
    \/ NextEndpoint
    \/ BatchAttempt
    \/ AfterInner
    \/ AfterUpload
    \/ AfterSigned
    \/ AfterOCR
    \/ BatchReturn

SpecBatch == InitBatch /\ [][NextBatch]_vars

-----------------------------------------------------------------------------
(* Claims about the retry loop.                                            *)

Transient(code) == code \in {503, 504}

\* C1 (as stated): with retry-on-different-endpoint enabled, N >= 1 distinct
\* endpoints and maxRetries = R >= 0, a call whose every request was answered
\* with 503 or 504 has sent R + 1 requests to each endpoint of the pool,
\* N x (R + 1) in all, when it returns its error.
C1_AllEndpointsTimesAttempts ==
    ( /\ call.pc = "done"
      /\ Precheck(call.op, call.arg) = "ok"
      /\ retryDifferentEndpoint
      /\ Len(baseURLs) >= 1 /\ Distinct(baseURLs)
      /\ maxRetries >= 0
      /\ net.allTransient )
    => /\ \A u \in Range(baseURLs) : net.sent[u] = maxRetries + 1
       /\ net.n = Len(baseURLs) * (maxRetries + 1)
       /\ call.ret.err # NoErr

\* the steps of a running call
CallStep == OuterLoop \/ NextEndpoint \/ Attempt \/ AfterInner

Running == call.pc \notin {"idle", "done"}

\* what is left of the two loops: the outer iterations still to come, and
\* within the current one the attempts still to come
LoopsLeft ==
    LET perEndpoint == IF maxRetries >= 0 THEN maxRetries + 1 ELSE 0
        width == perEndpoint + 4
        left == Len(baseURLs) - call.endpointAttempt
    IN CASE call.pc = "outer" -> left * width + perEndpoint + 3
         [] call.pc = "next"  -> left * width + perEndpoint + 2
         [] call.pc = "inner" -> left * width + (perEndpoint - call.attempt) + 1
         [] call.pc = "after" -> left * width + 1
         [] OTHER -> 0

\* C8: the requests of one call never number more than
\* len(baseURLs) x (maxRetries + 1), and every call returns: a running call
\* can always take its next step, and each step brings it strictly nearer
\* to its return (LoopsLeft is a natural number that every step decreases).
C8_BoundedAndTerminates ==
    /\ [](net.n <= Len(baseURLs) * (maxRetries + 1))
    /\ [](Running => (LoopsLeft >= 0 /\ ENABLED CallStep))
    /\ [][Running => LoopsLeft' < LoopsLeft]_vars

C8_Witness ==
    /\ call.pc = "done"
    /\ net.n = Len(baseURLs) * (maxRetries + 1)
    /\ net.n >= 2

\* C9: a call that made at least one attempt, none of which received status
\* 200, returns an error, and that error is the one of its last attempt.
C9_LastErrorReturned ==
    (call.pc = "done" /\ net.attempts >= 1 /\ ~net.ok200)
    => /\ call.ret.err # NoErr
       /\ call.ret.err = net.last

C9_Witness ==
    /\ call.pc = "done"
    /\ net.attempts >= 3
    /\ ~net.ok200
    /\ Cardinality(call.triedEndpoints) >= 2
    /\ call.ret.err = net.last
    /\ call.ret.err.kind = "status" /\ call.ret.err.code = 401

-----------------------------------------------------------------------------
(* Claims about the rotator.                                               *)

\* the element at Go index (start + k) % len(pool)
CyclicAt(pool, start, k) == pool[((start + k) % Len(pool)) + 1]

\* C2: in a run of next() calls on a pool of N >= 1 elements the i-th call
\* returns the element i - 1 positions after the starting cursor, in cyclic
\* list order, so N calls return every position once and the cursor is back
\* at its start; current() returns the element at the cursor and leaves the
\* cursor where it was.
C2_RoundRobin ==
    /\ Len(apiKeys) >= 1 =>
         /\ \A i \in 1..Len(rot.keys) :
               rot.keys[i] = CyclicAt(apiKeys, rot.keyStart, i - 1)
         /\ currentKeyIndex = (rot.keyStart + Len(rot.keys)) % Len(apiKeys)
         /\ Len(rot.keys) = Len(apiKeys) => currentKeyIndex = rot.keyStart
    /\ Len(baseURLs) >= 1 =>
         /\ \A i \in 1..Len(rot.urls) :
               rot.urls[i] = CyclicAt(baseURLs, rot.urlStart, i - 1)
         /\ currentURLIndex = (rot.urlStart + Len(rot.urls)) % Len(baseURLs)
         /\ Len(rot.urls) = Len(baseURLs) => currentURLIndex = rot.urlStart
         /\ rot.cur # "none" => rot.cur = baseURLs[currentURLIndex + 1]

C2_Witness ==
    /\ Len(baseURLs) = 3 /\ Distinct(baseURLs)
    /\ rot.urlStart = 1
    /\ rot.urls = <<baseURLs[2], baseURLs[3], baseURLs[1]>>
    /\ currentURLIndex = 1
    /\ rot.cur = baseURLs[2]
    /\ Len(apiKeys) = 2 /\ rot.keyStart = 1
    /\ rot.keys = <<apiKeys[2], apiKeys[1]>>

-----------------------------------------------------------------------------
(* Claims about the files a conversion writes.                             *)

OutDir == fs[OutputName(1)]
Converted == mat.pc = "done" /\ mat.saved

\* the ids of the response's images whose file is on disk
SavedIds ==
    { img.id : img \in { AllImages(mat.resp.pages)[i] :
                           i \in 1..Len(AllImages(mat.resp.pages)) } }
    \cap { id \in {ImgX, ImgY} : ImageFilename(id) \in Keys(OutDir.images) }

\* one pass over a page, left to right: a reference ![id](id) to a saved
\* image is replaced by ![id](images/<filename>), any other character kept
RECURSIVE ExpectedPage(_, _)
ExpectedPage(markdown, saved) ==
    IF markdown = <<>> THEN <<>>
    ELSE IF \E id \in saved : HasPrefix(markdown, ImageRef(id, id))
    THEN LET id == CHOOSE i \in saved : HasPrefix(markdown, ImageRef(i, i))
         IN ImageRef(id, <<"images/">> \o ImageFilename(id))
            \o ExpectedPage(Drop(markdown, Len(ImageRef(id, id))), saved)
    ELSE <<Head(markdown)>> \o ExpectedPage(Tail(markdown), saved)

RECURSIVE ExpectedMd(_, _)
ExpectedMd(pages, saved) ==
    IF pages = <<>> THEN <<>>
    ELSE ExpectedPage(Head(pages).markdown, saved) \o <<NL, NL>>
         \o ExpectedMd(Tail(pages), saved)

\* C5: output.md is the pages' Markdown in page order, each page followed
\* by a blank line; with image inclusion every ![id](id) of a saved image
\* is rewritten to ![id](images/<filename>) and nothing else changes, and
\* without image inclusion nothing is rewritten at all
C5_CombinedMarkdown ==
    Converted =>
        /\ (mat.err = "" => OutDir.md.there)
        /\ OutDir.md.there =>
             OutDir.md.data =
                 ExpectedMd(mat.resp.pages, IF mat.includeImages THEN SavedIds ELSE {})

\* pages ["A![x](x)", "B"] with saved image x give
\* "A![x](images/x.jpeg)\n\nB\n\n"
C5_Witness ==
    /\ Converted
    /\ mat.includeImages
    /\ mat.resp = [pages |-> <<Page(<<"A">> \o ImageRef(ImgX, ImgX),
                                    <<Image(ImgX, GoodPayload)>>),
                               Page(<<"B">>, <<>>)>>]
    /\ OutDir.md.there
    /\ OutDir.md.data = <<"A", "!", "[", "x", "]", "(", "images/", "x", ".", "jpeg", ")",
                          NL, NL, "B", NL, NL>>

\* C6: output.txt contains no occurrence of "![", whatever the response
C6_NoImageMarkerInText ==
    (Converted /\ OutDir.txt.there) => ~Contains(OutDir.txt.data, ImgOpen)

\* whitespace and newline characters
RemovedAll == {"\n", "\r", " ", "\t"}

\* the raw base64 string of a data URL: everything up to and including the
\* first comma dropped, whitespace and newline characters removed
RawForm(payload) == Without(Drop(payload, Index(payload, Comma) + 1), RemovedAll)

FirstImage == AllImages(mat.resp.pages)[1]

\* C7: an image in the form data:<mime>;base64,<payload> is saved exactly
\* when its raw base64 string would be, and with the same bytes
C7_DataURLLikeRaw ==
    (/\ Converted
     /\ mat.includeImages
     /\ mat.faults = {}
     /\ AllImages(mat.resp.pages) # <<>>
     /\ HasPrefix(FirstImage.payload, DataPrefix \o Mime \o Comma))
    => LET raw == ImageBytes(RawForm(FirstImage.payload))
           name == ImageFilename(FirstImage.id)
       IN /\ raw[1] <=> name \in Keys(OutDir.images)
          /\ raw[1] => Get(OutDir.images, name) = raw[2]

\* data:image/jpeg;base64,AAAA\nBBBB is saved with the bytes of AAAABBBB
C7_Example ==
    (/\ Converted
     /\ mat.includeImages
     /\ mat.faults = {}
     /\ AllImages(mat.resp.pages) # <<>>
     /\ FirstImage.payload = DataURL(<<"A", "A", "A", "A", NL, "B", "B", "B", "B">>))
    => /\ ImageFilename(FirstImage.id) \in Keys(OutDir.images)
       /\ Get(OutDir.images, ImageFilename(FirstImage.id))
            = DecodeString(<<"A", "A", "A", "A", "B", "B", "B", "B">>)[2]

-----------------------------------------------------------------------------
(* Claims about ProcessFile and ProcessMultipleFiles.                      *)

\* ProcessFile is entered for the next file of the work list
AtProcessFile == job.pc = "loop" /\ job.i < Len(job.files)
NextDir == fs[OutputName(job.files[job.i + 1])]
HoldsOutput(dir) == dir.exists /\ dir.md.there /\ Len(dir.md.data) > 0

\* C3: ProcessFile on a file whose output directory holds an output.md of
\* non-zero size (that os.Stat can read) returns in that step, with a
\* result of 0 pages: no call is begun and no request sent, no artifact
\* and no rotator cursor changes
C3_SkipsFinishedFile ==
    [][ (AtProcessFile /\ HoldsOutput(NextDir) /\ job'.fault # "stat")
        => /\ UNCHANGED <<clientVars, call, net, fs>>
           /\ job'.pc = "loop"
           /\ job'.i = job.i + 1
           /\ job'.results = Append(job.results, Result(job.files[job.i + 1], 0))
      ]_vars

\* a file has been skipped: its directory held output.md, its result has 0 pages
C3_Witness ==
    /\ job.pc = "loop"
    /\ job.i > 0
    /\ job.fault = "none"
    /\ job.outcome[job.i] = "ok"
    /\ HoldsOutput(fs[OutputName(job.files[job.i])])
    /\ job.results[Len(job.results)] = Result(job.files[job.i], 0)
    /\ net = NoNet

\* the files of `files` whose outcome is "ok", in order
RECURSIVE Succeeded(_, _)
Succeeded(files, outcome) ==
    IF files = <<>> \/ outcome = <<>> THEN <<>>
    ELSE (IF Head(outcome) = "ok" THEN <<Head(files)>> ELSE <<>>)
         \o Succeeded(Tail(files), Tail(outcome))

ResultFiles(results) == [k \in 1..Len(results) |-> results[k].file]

\* the batch has returned, after collecting at least one file
Returned == job.pc = "done" /\ job.files # <<>>

\* C4: with continue-on-error every collected file is attempted once, in
\* collection order; the results returned are those of the files that
\* succeeded, in order, with a nil error if there is one; an error is
\* returned only when no file succeeded
C4_ContinueOnError ==
    (Returned /\ job.continueOnError)
    => /\ job.attempted = job.files
       /\ Len(job.outcome) = Len(job.files)
       /\ ResultFiles(job.ret.results) = Succeeded(job.files, job.outcome)
       /\ (job.ret.err = "") <=> (Succeeded(job.files, job.outcome) # <<>>)

\* three files, the second fails, the two others are returned
C4_Witness ==
    /\ Returned
    /\ job.continueOnError
    /\ Len(job.files) = 3
    /\ job.outcome = <<"ok", "fail", "ok">>
    /\ ResultFiles(job.ret.results) = <<1, 3>>
    /\ job.ret.err = ""

FirstFailure == CHOOSE k \in 1..Len(job.outcome) :
                    job.outcome[k] = "fail" /\ \A j \in 1..(k - 1) : job.outcome[j] = "ok"

\* C10: without continue-on-error the first file that fails ends the
\* batch: no later file is attempted, and the results of the files before
\* it are returned together with an error
C10_AbortOnFirstFailure ==
    (Returned /\ ~job.continueOnError /\ \E k \in 1..Len(job.outcome) : job.outcome[k] = "fail")
    => /\ job.attempted = SubSeq(job.files, 1, FirstFailure)
       /\ Len(job.outcome) = FirstFailure
       /\ ResultFiles(job.ret.results) = SubSeq(job.files, 1, FirstFailure - 1)
       /\ job.ret.err # ""

\* the second of three files fails: one result, an error, the third untouched
C10_Witness ==
    /\ Returned
    /\ ~job.continueOnError
    /\ Len(job.files) = 3
    /\ job.outcome = <<"ok", "fail">>
    /\ job.attempted = <<1, 2>>
    /\ Len(job.ret.results) = 1
    /\ job.ret.err # ""

-----------------------------------------------------------------------------
(* More claims about the retry loop.                                       *)

\* the endpoint at the cursor when the call started
StartURL ==
    IF Len(baseURLs) = 0 THEN DefaultBaseURL ELSE baseURLs[net.startURLIndex + 1]

\* C11: with retry-on-different-endpoint disabled every request of a call
\* goes to the endpoint that was current when the call started, and the
\* requests number at most maxRetries + 1, whatever the attempts meet
C11_SingleEndpoint ==
    (~retryDifferentEndpoint /\ call.pc # "idle")
    => /\ net.n <= (IF maxRetries >= 0 THEN maxRetries + 1 ELSE 0)
       /\ \A u \in AllURLs : net.sent[u] > 0 => u = StartURL

\* a call on a pool of three endpoints that has used up its attempts
C11_Witness ==
    /\ ~retryDifferentEndpoint
    /\ call.pc = "done"
    /\ Len(baseURLs) = 3 /\ Distinct(baseURLs)
    /\ maxRetries >= 1
    /\ net.n = maxRetries + 1
    /\ net.sent[StartURL] = maxRetries + 1

\* C12: a call on an empty endpoint pool makes its attempts at the default
\* address https://api.mistral.ai/v1/: it has made at least one attempt
\* when it returns, and every request it sent went there
C12_EmptyPoolUsesDefault ==
    (call.pc = "done" /\ Precheck(call.op, call.arg) = "ok"
       /\ Len(baseURLs) = 0 /\ maxRetries >= 0)
    => /\ net.attempts >= 1
       /\ call.triedEndpoints = {DefaultBaseURL}
       /\ net.n = net.sent[DefaultBaseURL]

\* C13: UploadPDF on a file of more than 50 MiB returns at its entry with
\* the size error (or the error of os.Stat if that fails first): no attempt
\* is made, no request sent, and neither cursor moves; a file of 50 MiB or
\* less never gets the size error
C13_SizeLimitBeforeNetwork ==
    /\ [][ (call.pc = "idle" /\ call'.op = "upload" /\ call'.arg.size > 50 * 1024 * 1024)
           => /\ call'.pc = "done"
              /\ call'.ret.err # NoErr
              /\ call'.arg.kind # "nostat" => call'.ret.err.kind = "size"
              /\ net'.n = 0 /\ net'.attempts = 0
              /\ UNCHANGED clientVars
         ]_vars
    /\ []((call.op = "upload" /\ call.ret.err.kind = "size")
            => call.arg.size > 50 * 1024 * 1024)
    /\ []((call.op = "upload" /\ call.arg.kind = "file" /\ call.arg.size <= 50 * 1024 * 1024)
            => call.ret.err.kind \notin {"size", "stat", "open"})

\* a file of 50 MiB and one byte has been rejected
C13_Witness ==
    /\ call.pc = "done"
    /\ call.op = "upload"
    /\ call.arg = Arg("file", 50 * 1024 * 1024 + 1)
    /\ call.ret.err.kind = "size"
    /\ net.n = 0

\* a file of exactly 50 MiB is on its way
C13_WitnessAccepted ==
    /\ call.op = "upload"
    /\ call.arg = Arg("file", 50 * 1024 * 1024)
    /\ net.n >= 1

-----------------------------------------------------------------------------
(* Claims about the rotator under concurrent calls.                        *)

InLock(i) == conc.g[i].pc \in {"read", "load", "store", "unlock"}
HasReturn(i) == conc.g[i].pc \in {"unlock", "done"}

\* the number of calls of fn among the first k that took the lock
RECURSIVE CallsBefore(_, _)
CallsBefore(fn, k) ==
    IF k = 0 THEN 0
    ELSE CallsBefore(fn, k - 1) + (IF conc.g[conc.order[k]].fn = fn THEN 1 ELSE 0)

\* what the k-th call to take the lock returns if the calls ran one after
\* another in that order
SequentialReturn(k) ==
    LET fn == conc.g[conc.order[k]].fn IN
    IF fn = "getNextAPIKey"
    THEN IF Len(apiKeys) = 0 THEN ""
         ELSE CyclicAt(apiKeys, conc.keyStart, CallsBefore("getNextAPIKey", k - 1))
    ELSE IF Len(baseURLs) = 0 THEN DefaultBaseURL
         ELSE CyclicAt(baseURLs, conc.urlStart, CallsBefore("getNextBaseURL", k - 1))

\* C14: concurrent calls of next() are linearizable, in the order in which
\* they took the lock: each returns what it would return if the calls ran
\* one after another, so K calls on a pool of N >= K distinct elements
\* return K different elements, consecutive in cyclic order; with the lock
\* free the cursor has advanced by the number of calls modulo N; and a
\* goroutine reads or writes a cursor only while it holds the lock
C14_Linearizable ==
    /\ \A i \in Goroutines : InLock(i) => conc.mu = i
    /\ \A k \in 1..Len(conc.order) :
          HasReturn(conc.order[k]) => conc.g[conc.order[k]].ret = SequentialReturn(k)
    /\ conc.mu = 0 =>
          /\ Len(apiKeys) > 0 =>
               currentKeyIndex
                 = (conc.keyStart + CallsBefore("getNextAPIKey", Len(conc.order))) % Len(apiKeys)
          /\ Len(baseURLs) > 0 =>
               currentURLIndex
                 = (conc.urlStart + CallsBefore("getNextBaseURL", Len(conc.order))) % Len(baseURLs)
    /\ \A i, j \in Goroutines :
          (/\ i # j /\ conc.g[i].pc = "done" /\ conc.g[j].pc = "done"
           /\ conc.g[i].fn = conc.g[j].fn /\ conc.g[i].fn # "getCurrentBaseURL"
           /\ Distinct(PoolOf(conc.g[i].fn))
           /\ Len(PoolOf(conc.g[i].fn)) >= MaxGoroutines)
          => conc.g[i].ret # conc.g[j].ret

\* every goroutine has called getNextBaseURL on a pool at least as long,
\* each has got another endpoint, and the cursor has moved by their number
C14_Witness ==
    /\ \A i \in Goroutines :
          conc.g[i].pc = "done" /\ conc.g[i].fn = "getNextBaseURL"
    /\ Distinct(baseURLs) /\ Len(baseURLs) > MaxGoroutines
    /\ \A i, j \in Goroutines : i # j => conc.g[i].ret # conc.g[j].ret
    /\ currentURLIndex = (conc.urlStart + MaxGoroutines) % Len(baseURLs)

-----------------------------------------------------------------------------
(* Claims about the names and the work list of a batch.                    *)

\* the number a sequence of decimal digits stands for, -1 if it is none
RECURSIVE ParseDecimal(_)
ParseDecimal(s) ==
    IF s = <<>> \/ s[Len(s)] \notin Range(DigitChars) THEN -1
    ELSE LET d == (CHOOSE k \in 1..10 : DigitChars[k] = s[Len(s)]) - 1
         IN IF Len(s) = 1 THEN d
            ELSE IF ParseDecimal(Take(s, Len(s) - 1)) < 0 THEN -1
            ELSE 10 * ParseDecimal(Take(s, Len(s) - 1)) + d

\* C15: in a batch without a custom output name the output directory of a
\* file is named by its base name without the extension; with a custom name
\* and more than one collected file the i-th collected file (from 1) gets
\* <custom>_<i>; with a custom name and one collected file it gets the
\* custom name as it is; a result lies in the directory of its file's name
C15_OutputNames ==
    LET custom == job.customOutputName IN
    /\ \A j \in 1..Len(job.names) :
          LET name == job.names[j]
              file == job.files[j]
          IN /\ custom = <<>> => name \o Ext(file) = file[Len(file)]
             /\ (custom # <<>> /\ Len(job.files) > 1) =>
                   /\ HasPrefix(name, custom)
                   /\ Len(name) > Len(custom) + 1
                   /\ name[Len(custom) + 1] = "_"
                   /\ ParseDecimal(Drop(name, Len(custom) + 1)) = j
             /\ (custom # <<>> /\ Len(job.files) = 1) => name = custom
    /\ Len(job.names) \in {job.i, job.i + 1}
    /\ \A r \in Range(job.results) :
          \E j \in 1..Len(job.names) : job.files[j] = r.file /\ job.names[j] = r.OutputDir

\* a batch with a custom name has gone through more than one file, and the
\* second one, found below a directory, got the name out_2
C15_Witness ==
    /\ job.pc = "done"
    /\ job.customOutputName = <<"o", "u", "t">>
    /\ Len(job.files) >= 2
    /\ Len(job.names) = Len(job.files)
    /\ job.names[1] = <<"o", "u", "t", "_", "1">>
    /\ job.names[2] = <<"o", "u", "t", "_", "2">>
    /\ \E r \in Range(job.results) : r.OutputDir = job.names[2]

\* every entry of the disk, with its path
RECURSIVE EntriesOf(_, _)
EntriesOf(path, node) ==
    {[path |-> path, dir |-> node.dir, readable |-> node.readable]}
    \cup UNION { EntriesOf(Append(path, node.kids[k].name), node.kids[k]) :
                    k \in 1..Len(node.kids) }
Entries == EntriesOf(<<>>, Disk)

\* the entries at and below a path
Below(path) == { e \in Entries : HasPrefix(e.path, path) }

\* the path exists and everything at and below it can be read
CanBeRead(path) == Below(path) # {} /\ \A e \in Below(path) : e.readable

\* the last name ends in a dot and the letters p, d, f in either case
HasPdfExtension(path) ==
    LET name == path[Len(path)] IN
    /\ path # <<>>
    /\ Len(name) >= 4
    /\ name[Len(name) - 3] = "."
    /\ name[Len(name) - 2] \in {"p", "P"}
    /\ name[Len(name) - 1] \in {"d", "D"}
    /\ name[Len(name)] \in {"f", "F"}

\* the files a path stands for
PdfFilesOf(path) == { e.path : e \in { x \in Below(path) : ~x.dir /\ HasPdfExtension(x.path) } }

IsFileArg(path) == \E e \in Entries : e.path = path /\ ~e.dir

Times(seq, x) == Cardinality({ k \in 1..Len(seq) : seq[k] = x })

C16_WitnessEmpty ==
    /\ job.pc = "done"
    /\ job.paths = << <<Name.txt>>, <<Name.empty>> >>
    /\ job.ret.err = "no files"

-----------------------------------------------------------------------------
(* Claims about what the attempts of one call carry.                       *)

\* the step is an attempt of the call that puts a request on the wire
SendsRequest == call.pc = "inner" /\ net'.n = net.n + 1

\* C17: every upload request sent after an earlier attempt of the same
\* call has read the file, be it a retry on the same endpoint or the first
\* attempt on a later endpoint, carries the whole file, read from position 0
C17_UploadCarriesWholeFile ==
    [][ (SendsRequest /\ call.op = "upload" /\ net.attempts > 0 /\ call.filePos > 0)
        => net'.body = FileLen ]_vars

\* a request of a later attempt on the same endpoint carries the whole file
C17_WitnessRetry ==
    /\ call.op = "upload" /\ call.attempt > 0 /\ call.filePos = FileLen
    /\ net.n >= 2 /\ net.sent[call.baseURL] >= 2 /\ net.body = FileLen

\* the first request to a second endpoint has gone out with an empty file part
C17_EmptyBody ==
    /\ call.op = "upload"
    /\ Cardinality(call.triedEndpoints) = 2
    /\ net.sent[call.baseURL] = 1 /\ net.n >= 2
    /\ net.body = 0

\* the credential in the Authorization header of the call's last request
Carried(c) == IF c.op = "upload" THEN c.usedAPIKey ELSE c.apiKey

\* C18: in upload, signed-URL fetch and OCR submission every attempt takes
\* the next credential from the rotator, so two consecutive attempts of one
\* call carry different credentials when the pool holds two distinct ones
C18_CredentialPerAttempt ==
    [][ (SendsRequest /\ Cardinality(Range(apiKeys)) >= 2)
        => /\ Carried(call') = apiKeys[currentKeyIndex + 1]
           /\ currentKeyIndex' = (currentKeyIndex + 1) % Len(apiKeys)
           /\ net.n > 0 => Carried(call') # Carried(call) ]_vars

\* two requests of one upload have gone out under different credentials
C18_WitnessUpload ==
    /\ call.op = "upload" /\ net.n = 2 /\ Distinct(apiKeys) /\ Len(apiKeys) = 2
    /\ call.usedAPIKey = apiKeys[((currentKeyIndex + 1) % 2) + 1]

\* two requests of one signed-URL fetch have gone out under the credential
\* the caller passed, and the credential cursor is where it was
C18_SameCredential ==
    /\ call.op = "signed" /\ net.n = 2 /\ Distinct(apiKeys) /\ Len(apiKeys) = 2
    /\ call.apiKey # ""

\* C19: the endpoint cursor advances by one position modulo the pool size
\* on every request attempt, successful or not; a call that succeeds on its
\* first attempt leaves the cursor one position further than before the call
C19_EndpointCursorPerAttempt ==
    /\ [][ (call.pc = "inner" /\ net'.attempts = net.attempts + 1 /\ Len(baseURLs) > 0)
           => currentURLIndex' = (currentURLIndex + 1) % Len(baseURLs) ]_vars
    /\ []((call.pc = "done" /\ net.ok200 /\ net.attempts = 1 /\ Len(baseURLs) > 0)
           => currentURLIndex = (net.startURLIndex + 1) % Len(baseURLs))

\* a call has succeeded on its first attempt on a pool of several endpoints
\* and the endpoint cursor is where it was before the call
C19_CursorStays ==
    /\ call.pc = "done" /\ net.ok200 /\ net.attempts = 1 /\ call.ret.err = NoErr
    /\ Len(baseURLs) >= 2
    /\ currentURLIndex = net.startURLIndex

-----------------------------------------------------------------------------
(* Claims about the statuses that end the attempts on an endpoint.         *)

\* a response whose status is none of 200, 503, 504, 401, 403
OtherStatus(e) == e.kind = "status" /\ e.code \notin {200, 503, 504, 401, 403}

\* the step is one pass of the inner loop's body
AttemptStep == call.pc = "inner" /\ net'.attempts = net.attempts + 1

\* the step begins a round of attempts on an endpoint
RoundBegins == call.pc # "inner" /\ call'.pc = "inner"

\* C20: after a response whose status is none of 200, 503, 504, 401, 403:
\* with retry on a different endpoint enabled, no further attempt is made on
\* that endpoint (the inner loop is left, and a round of attempts begins
\* only on an endpoint that is not among the tried ones, which hold every
\* endpoint attempted), and the next request of the call goes to an
\* endpoint not yet tried whenever the pool still has one, so the call does
\* not return from such a response while an endpoint of the pool is
\* untried; with the policy disabled the call returns that error at once
C20_OtherStatus ==
    /\ [][ (AttemptStep /\ retryDifferentEndpoint /\ OtherStatus(net'.last))
           => call'.pc = "after" ]_vars
    /\ [][ RoundBegins => call'.baseURL \notin call.triedEndpoints ]_vars
    /\ [][ AttemptStep => /\ call'.baseURL = call.baseURL
                          /\ call.baseURL \in call.triedEndpoints
                          /\ call'.triedEndpoints = call.triedEndpoints ]_vars
    /\ [][ (SendsRequest /\ retryDifferentEndpoint /\ OtherStatus(net.last))
           => net.sent[call.baseURL] = 0 ]_vars
    /\ []((call.pc = "done" /\ retryDifferentEndpoint /\ OtherStatus(net.last))
           => Range(baseURLs) \subseteq call.triedEndpoints)
    /\ [][ (AttemptStep /\ ~retryDifferentEndpoint /\ OtherStatus(net'.last))
           => call'.pc = "done" /\ call'.ret.err = net'.last ]_vars

\* C20 without its fifth conjunct: what is sent after such a response goes
\* to an endpoint that got no request yet
OtherStatusSafe ==
    /\ [][ (AttemptStep /\ retryDifferentEndpoint /\ OtherStatus(net'.last))
           => call'.pc = "after" ]_vars
    /\ [][ RoundBegins => call'.baseURL \notin call.triedEndpoints ]_vars
    /\ [][ AttemptStep => /\ call'.baseURL = call.baseURL
                          /\ call.baseURL \in call.triedEndpoints
                          /\ call'.triedEndpoints = call.triedEndpoints ]_vars
    /\ [][ (SendsRequest /\ retryDifferentEndpoint /\ OtherStatus(net.last))
           => net.sent[call.baseURL] = 0 ]_vars
    /\ [][ (AttemptStep /\ ~retryDifferentEndpoint /\ OtherStatus(net'.last))
           => call'.pc = "done" /\ call'.ret.err = net'.last ]_vars

\* the call has returned the error of a 500 from the first of two endpoints
\* and has sent nothing to the second
C20_SecondEndpointUntried ==
    /\ call.pc = "done" /\ retryDifferentEndpoint /\ maxRetries >= 0
    /\ OtherStatus(net.last) /\ call.ret.err = net.last
    /\ Len(baseURLs) = 2 /\ Distinct(baseURLs)
    /\ Cardinality(call.triedEndpoints) = 1
    /\ \E u \in Range(baseURLs) : net.sent[u] = 0

\* after such a response from one endpoint a request has gone to another
C20_WitnessNextEndpoint ==
    /\ retryDifferentEndpoint /\ net.n = 2 /\ maxRetries = 0
    /\ Cardinality(call.triedEndpoints) = 2
    /\ net.sent[call.baseURL] = 1
    /\ OtherStatus(net.last)

\* a response with status 401 or 403
AuthStatus(e) == e.kind = "status" /\ e.code \in {401, 403}

C21_WitnessReturn ==
    /\ call.pc = "done" /\ ~retryDifferentEndpoint /\ maxRetries >= 1
    /\ AuthStatus(call.ret.err) /\ net.n = 1

\* a transport failure of the request or of the body read, or a 503 or 504
Retryable(e) ==
    \/ e.kind \in {"send", "read"}
    \/ e.kind = "status" /\ e.code \in {503, 504}

\* C22: after an attempt that ends in a transport failure (send or body
\* read) or in status 503 or 504, with the attempt index below maxRetries,
\* the call neither returns nor switches endpoint: the next pass of the
\* inner loop is on the same endpoint, and the request it sends goes to the
\* endpoint that got the failed one
C22_RetriedInPlace ==
    /\ [][ (AttemptStep /\ Retryable(net'.last) /\ call.attempt < maxRetries)
           => /\ call'.pc = "inner"
              /\ call'.baseURL = call.baseURL
              /\ call'.attempt = call.attempt + 1
              /\ call'.triedEndpoints = call.triedEndpoints
              /\ UNCHANGED currentURLIndex ]_vars
    /\ [][ (SendsRequest /\ Retryable(net.last) /\ call.attempt > 0)
           => /\ net.sent[call.baseURL] > 0
              /\ net'.sent[call.baseURL] = net.sent[call.baseURL] + 1 ]_vars

\* a 503 or a transport failure on the first attempt, and the second
\* request has gone to the same endpoint, the only one tried
C22_Witness ==
    /\ net.n = 2 /\ net.attempts = 2
    /\ Cardinality(call.triedEndpoints) = 1
    /\ net.sent[call.baseURL] = 2
    /\ Len(baseURLs) >= 2 /\ Distinct(baseURLs) /\ retryDifferentEndpoint
    /\ maxRetries >= 1

\* C23: a response with status 502 is handled as a transient server error:
\* like a 503 it is retried in place, on the same endpoint, while attempts
\* remain
C23_BadGatewayRetried ==
    [][ (AttemptStep /\ net'.last.kind = "status" /\ net'.last.code = 502
           /\ call.attempt < maxRetries)
        => /\ call'.pc = "inner"
           /\ call'.baseURL = call.baseURL
           /\ call'.attempt = call.attempt + 1 ]_vars

\* the first attempt got a 502, attempts remained, and the call has
\* returned that error after this one request
C23_NotRetried ==
    /\ call.pc = "done" /\ maxRetries >= 1
    /\ net.n = 1 /\ net.attempts = 1
    /\ call.ret.err.kind = "status" /\ call.ret.err.code = 502

\* a 200 whose body json.Unmarshal rejects
Undecodable(e) == e.kind = "status" /\ e.code = 200 /\ e.body = "garbage"

\* C24: a 200 response whose body cannot be deserialized makes the call
\* return a decode error at once: the call returns in the pass that got the
\* response, with no value, and a returned call makes no further attempt
C24_DecodeErrorIsFinal ==
    /\ [][ (AttemptStep /\ Undecodable(net'.last))
           => /\ call'.pc = "done"
              /\ call'.ret.err = DecodeErr(call.op)
              /\ call'.ret.value = "" ]_vars
    /\ [][ call.pc = "done" => ~AttemptStep /\ net'.n \in {0, net.n} ]_vars
    /\ []((call.pc = "done" /\ call.ret.err.kind = "decode") => Undecodable(net.last))

\* the first request got an undecodable 200 and the call has returned the
\* decode error, with attempts and endpoints left
C24_Witness ==
    /\ call.pc = "done" /\ call.ret.err = DecodeErr(call.op)
    /\ net.n = 1 /\ maxRetries >= 1
    /\ retryDifferentEndpoint /\ Len(baseURLs) = 3 /\ Distinct(baseURLs)
    /\ Cardinality(call.triedEndpoints) = 1

\* C25: within the attempts on one endpoint no delay precedes attempt 0,
\* the delay before attempt 1 is one second and the delay before each later
\* attempt is twice the one before (1 s, 2 s, 4 s, ...); the sequence
\* restarts at attempt 0 for each new endpoint
C25_Backoff ==
    /\ [][ AttemptStep =>
             /\ call.attempt = 0 => net'.delay = 0
             /\ call.attempt = 1 => net'.delay = 1
             /\ call.attempt >= 2 => net'.delay = 2 * net.delay ]_vars
    /\ [][ RoundBegins => call'.attempt = 0 ]_vars
    /\ [][ (AttemptStep /\ call'.pc = "inner") => call'.attempt = call.attempt + 1 ]_vars

\* the third pass on the first endpoint slept two seconds, and the first
\* pass on the second endpoint has run without a delay
C25_Witness ==
    /\ maxRetries = 2 /\ net.attempts = 4 /\ net.delay = 0
    /\ Cardinality(call.triedEndpoints) = 2
    /\ call.pc = "inner" /\ call.attempt = 1

\* the third pass on an endpoint has slept two seconds
C25_WitnessTwoSeconds ==
    /\ net.attempts = 3 /\ net.delay = 2
    /\ Cardinality(call.triedEndpoints) = 1

\* C26: UploadPDF, GetSignedURL and ProcessOCR return a nil error only if a
\* request of the call received status 200 with a body that decodes, for
\* every client, an empty endpoint pool and a negative maxRetries included;
\* ProcessOCR never returns a nil response together with a nil error
C26_SuccessOnlyAfter200 ==
    (call.pc = "done" /\ call.ret.err = NoErr)
    => /\ net.ok200
       /\ net.last.kind = "status" /\ net.last.code = 200 /\ net.last.body = "json"
       /\ call.ret.value = "ok"

\* ProcessOCR on a client with endpoints and maxRetries = -1 has returned a
\* nil response and a nil error without a request
C26_NilNil ==
    /\ call.pc = "done" /\ call.op = "ocr" /\ call.arg = URLArg
    /\ maxRetries = -1 /\ Len(baseURLs) >= 1
    /\ call.ret.err = NoErr /\ call.ret.value = ""
    /\ net.n = 0

-----------------------------------------------------------------------------
(* Claims about a call on a client that other goroutines use.              *)

\* C27: within one call an endpoint address is selected for at most one
\* round of attempts, so it receives at most maxRetries + 1 requests, also
\* when the pool lists the address more than once and when other goroutines
\* move the shared endpoint cursor between the steps of this call
C27_OneRoundPerAddress ==
    /\ [](\A u \in AllURLs :
            net.sent[u] <= (IF maxRetries >= 0 THEN maxRetries + 1 ELSE 0))
    /\ [][ RoundBegins => /\ call'.baseURL \notin call.triedEndpoints
                          /\ net.sent[call'.baseURL] = 0 ]_vars
    /\ [][ AttemptStep => call'.baseURL = call.baseURL ]_vars

\* the loop head found the endpoint at the cursor tried, another goroutine
\* then moved the cursor to an endpoint not tried, and the call is about to
\* take its next endpoint
C27_Witness ==
    /\ call.pc = "next"
    /\ getCurrentBaseURL \notin call.triedEndpoints
    /\ net.sent[call.baseURL] = maxRetries + 1 /\ maxRetries >= 1

\* a pool that lists one address twice: the address got a full round and
\* the call has returned
C27_WitnessRepeated ==
    /\ call.pc = "done" /\ retryDifferentEndpoint
    /\ Len(baseURLs) = 2 /\ baseURLs[1] = baseURLs[2]
    /\ maxRetries >= 1 /\ net.sent[baseURLs[1]] = maxRetries + 1

-----------------------------------------------------------------------------
(* Claims about the pipeline of one file.                                  *)

-----------------------------------------------------------------------------
(* Claims about the output directories of a batch.                         *)

\* C29: in one batch two different collected files never share an output
\* directory, so no file of the batch is skipped as already done, with no
\* remote call and counted as a success, because of an output.md that
\* another file of the same batch wrote
C29_OwnOutputDir ==
    \A i, j \in 1..Len(job.names) :
        (i < j /\ job.files[i] # job.files[j])
        => /\ job.names[i] # job.names[j]
           /\ ~(job.outcome[i] = "ok" /\ job.outcome[j] = "skip"
                /\ job.names[i] = job.names[j])

\* the batch on the directory `in` and the file a.pdf has returned two
\* results without an error: in/a.pdf was processed into the directory a,
\* and a.pdf was skipped because of the output.md found there
C29_SkippedForAnother ==
    /\ job.pc = "done" /\ job.ret.err = ""
    /\ job.paths = <<<<Name.in>>, <<Name.a>>>>
    /\ job.files[1] = <<Name.in, Name.a>> /\ job.files[3] = <<Name.a>>
    /\ job.names[1] = <<"a">> /\ job.names[3] = <<"a">>
    /\ job.outcome[1] = "ok" /\ job.outcome[3] = "skip"
    /\ job.skippedFiles >= 1 /\ Len(job.ret.results) = 3

-----------------------------------------------------------------------------
(* Claims about the runs of ProcessFile on one file.                       *)

LastRun == job.outcome[Len(job.outcome)]

\* C30: if ProcessFile returned an error for a file, the next ProcessFile
\* of the same file with the same options is not skipped as already done;
\* the skip is taken only for an item whose previous processing returned
\* success, so a skipped item has both output.md and output.txt from a
\* completed run
C30_NoSkipAfterError ==
    /\ [][ (job.outcome # <<>> /\ LastRun = "fail" /\ Len(job'.outcome) = Len(job.outcome) + 1)
           => job'.outcome[Len(job'.outcome)] # "skip" ]_vars
    /\ []((job.outcome # <<>> /\ LastRun = "skip")
          => /\ \E k \in 1..Len(job.outcome) : job.outcome[k] = "ok"
             /\ fs[OutputName(1)].md.there
             /\ fs[OutputName(1)].txt.there)

\* the first run failed, the second was skipped: output.md is there and is
\* not empty, output.txt is not
C30_SkippedAfterError ==
    /\ job.outcome = <<"fail", "skip">>
    /\ fs[OutputName(1)].md.there /\ Len(fs[OutputName(1)].md.data) > 0
    /\ ~fs[OutputName(1)].txt.there

-----------------------------------------------------------------------------
(* Claims about the steps of one file.                                     *)

Written(before, after) ==
    \/ after.md # before.md
    \/ after.txt # before.txt
    \/ after.meta # before.meta
    \/ after.images # before.images

\* C31: for a file the steps come in the order upload, signed URL, OCR,
\* materialization: a step starts only after the one before it returned
\* success, and a failure of a remote step ends the item with an error
\* and no output.md, output.txt, metadata.json or image written
C31_StepsInOrder ==
    /\ [][ (call'.op = "upload" /\ call.op # "upload")
           => (job.pc = "loop" /\ call = Idle) ]_vars
    /\ [][ (call'.op = "signed" /\ call.op # "signed")
           => (job.pc = "upload" /\ call.op = "upload" /\ call.pc = "done"
               /\ call.ret.err = NoErr) ]_vars
    /\ [][ (call'.op = "ocr" /\ call.op # "ocr")
           => (job.pc = "signed" /\ call.op = "signed" /\ call.pc = "done"
               /\ call.ret.err = NoErr) ]_vars
    /\ [][ (\E d \in DOMAIN fs : Written(fs[d], fs'[d]))
           => (job.pc = "ocr" /\ call.op = "ocr" /\ call.pc = "done"
               /\ call.ret.err = NoErr) ]_vars
    /\ [][ (job.pc \in {"upload", "signed", "ocr"} /\ call.pc = "done"
            /\ call.ret.err # NoErr /\ job' # job)
           => /\ job'.outcome = Append(job.outcome, "fail")
              /\ job'.pc \notin {"upload", "signed", "ocr"}
              /\ \A d \in DOMAIN fs : ~Written(fs[d], fs'[d]) ]_vars

\* the item has failed after its upload succeeded, in GetSignedURL or in
\* ProcessOCR: its directory is there and holds nothing
C31_Witness ==
    /\ job.outcome = <<"fail">> /\ job.attempted = <<1>> /\ job.fault = "none"
    /\ job.apiKey # ""
    /\ call = Idle
    /\ fs[OutputName(1)].exists
    /\ ~fs[OutputName(1)].md.there /\ ~fs[OutputName(1)].txt.there
    /\ ~fs[OutputName(1)].meta.there /\ fs[OutputName(1)].images = {}

-----------------------------------------------------------------------------
(* Claims about the images of a response.                                  *)

ImagesOf(resp) == { AllImages(resp.pages)[i] : i \in 1..Len(AllImages(resp.pages)) }

\* the payload is empty, the placeholder, or does not decode
Unusable(payload) ==
    \/ payload = <<>>
    \/ payload = Placeholder
    \/ ~ImageBytes(payload)[1]

\* C32: an image whose payload is empty, is the placeholder "..." or fails
\* base64 decoding is skipped alone: every other image of the response is
\* saved, output.md and output.txt are written, the item returns success,
\* and images_saved counts exactly the images that were written
C32_BadImageSkippedAlone ==
    (Converted /\ mat.includeImages /\ mat.faults = {})
    => /\ mat.err = ""
       /\ OutDir.md.there /\ OutDir.txt.there
       /\ \A img \in ImagesOf(mat.resp) :
            IF Unusable(img.payload)
            THEN ImageFilename(img.id) \notin Keys(OutDir.images)
            ELSE /\ ImageFilename(img.id) \in Keys(OutDir.images)
                 /\ Get(OutDir.images, ImageFilename(img.id)) = ImageBytes(img.payload)[2]
       /\ mat.ret.imagesSaved
            = Cardinality({ img \in ImagesOf(mat.resp) : ~Unusable(img.payload) })
       /\ mat.ret.imagesSaved = Cardinality(OutDir.images)
       /\ OutDir.meta.there /\ OutDir.meta.data.ImagesSaved = mat.ret.imagesSaved

\* image x does not decode and image y after it does: y.jpeg alone is in
\* images/, images_saved is 1 and the conversion succeeded
C32_Witness ==
    /\ Converted /\ mat.includeImages /\ mat.faults = {}
    /\ AllImages(mat.resp.pages) = <<Image(ImgX, BadPayload), Image(ImgY, GoodPayload)>>
    /\ mat.err = ""
    /\ Keys(OutDir.images) = {ImageFilename(ImgY)}
    /\ mat.ret.imagesSaved = 1
    /\ OutDir.md.there /\ OutDir.txt.there

AllDecodable == \A img \in ImagesOf(mat.resp) : ~Unusable(img.payload)
DifferentIds ==
    \A i, j \in 1..Len(AllImages(mat.resp.pages)) :
        i # j => AllImages(mat.resp.pages)[i].id # AllImages(mat.resp.pages)[j].id

\* C33: images with different identifiers in one response are written to
\* different files under images/, the file name being the identifier with
\* .jpeg appended when it has no dot, so the number of image files equals
\* images_saved and every rewritten link points to the bytes of its own
\* image
C33_OwnImageFile ==
    (Converted /\ mat.includeImages /\ mat.faults = {} /\ AllDecodable /\ DifferentIds)
    => /\ \A a, b \in ImagesOf(mat.resp) :
            a.id # b.id => ImageFilename(a.id) # ImageFilename(b.id)
       /\ Cardinality(OutDir.images) = mat.ret.imagesSaved
       /\ \A img \in ImagesOf(mat.resp) :
            /\ ImageFilename(img.id) \in Keys(OutDir.images)
            /\ Contains(OutDir.md.data, ImageRef(img.id, LocalPath(img.id)))
            /\ Get(OutDir.images, ImageFilename(img.id)) = ImageBytes(img.payload)[2]

\* images x (AAAB) and x.jpeg (BBBB): images_saved is 2, images/ holds the
\* one file x.jpeg with the bytes of the second image, and the link of x
\* points to it
C33_SharedFile ==
    /\ Converted
    /\ AllImages(mat.resp.pages) = <<Image(ImgX, GoodPayload), Image(ImgXJpeg, OtherPayload)>>
    /\ mat.err = "" /\ mat.ret.imagesSaved = 2
    /\ Keys(OutDir.images) = {ImgXJpeg}
    /\ Get(OutDir.images, ImgXJpeg) = ImageBytes(OtherPayload)[2]
    /\ Get(OutDir.images, ImgXJpeg) # ImageBytes(GoodPayload)[2]
    /\ Contains(OutDir.md.data, ImageRef(ImgX, <<"images/">> \o ImgXJpeg))

\* images x and y: two files, each with its own bytes
C33_WitnessApart ==
    /\ Converted
    /\ AllImages(mat.resp.pages) = <<Image(ImgX, GoodPayload), Image(ImgY, OtherPayload)>>
    /\ mat.ret.imagesSaved = 2
    /\ Keys(OutDir.images) = {ImageFilename(ImgX), ImageFilename(ImgY)}

-----------------------------------------------------------------------------
(* Claims about the files saveResults writes.                              *)

\* C34: a failure to serialize or write metadata.json does not fail the
\* item: output.md and output.txt are still written and the operation
\* returns success; a failure to write output.md or output.txt makes the
\* operation return an error
C34_MetadataBestEffort ==
    Converted =>
        /\ Fault("meta", <<>>) \in mat.faults
             => /\ mat.err = ""
                /\ mat.ret.pages = Len(mat.resp.pages)
                /\ ~OutDir.meta.there
                /\ OutDir.md.there /\ OutDir.txt.there
                /\ OutDir.md.data =
                     ExpectedMd(mat.resp.pages, IF mat.includeImages THEN SavedIds ELSE {})
        /\ Fault("md", <<>>) \in mat.faults => (mat.err # "" /\ ~OutDir.md.there)
        /\ Fault("txt", <<>>) \in mat.faults => (mat.err # "" /\ ~OutDir.txt.there)

\* metadata.json could not be written: the conversion of a page succeeded
\* and left output.md and output.txt without it
C34_Witness ==
    /\ Converted
    /\ mat.faults = {Fault("meta", <<>>)}
    /\ Len(mat.resp.pages) = 2
    /\ mat.err = ""
    /\ OutDir.md.there /\ OutDir.txt.there /\ ~OutDir.meta.there

\* output.txt could not be written: the conversion returned an error
C34_WitnessTxt ==
    /\ Converted
    /\ mat.faults = {Fault("txt", <<>>)}
    /\ mat.err # ""
    /\ OutDir.md.there /\ ~OutDir.txt.there

-----------------------------------------------------------------------------
(* Claims about the text derived from a page.                              *)

PageText(i) == extractTextFromMarkdown(mat.resp.pages[i].markdown)

\* C38: the text extractTextFromMarkdown derives from a page contains no
\* two consecutive newline characters, whatever the page's Markdown, and
\* deriving the text of that text again changes nothing
C38_NewlinesCollapsed ==
    Converted =>
        \A i \in 1..Len(mat.resp.pages) :
            /\ ~Contains(PageText(i), <<NL, NL>>)
            /\ extractTextFromMarkdown(PageText(i)) = PageText(i)

\* the page "\n\n\n" was converted without image inclusion: its text is
\* "\n\n", and output.txt holds it with the two newlines that end a page
C38_ThreeNewlines ==
    /\ Converted /\ ~mat.includeImages /\ mat.err = ""
    /\ mat.resp = [pages |-> <<Page(<<NL, NL, NL>>, <<>>)>>]
    /\ PageText(1) = <<NL, NL>>
    /\ extractTextFromMarkdown(PageText(1)) = <<NL>>
    /\ OutDir.txt.data = <<NL, NL, NL, NL>>

\* the page "A\n\n" gives the text "A\n"
C38_TwoNewlines ==
    /\ Converted /\ mat.err = ""
    /\ mat.resp = [pages |-> <<Page(<<"A", NL, NL>>, <<>>)>>]
    /\ PageText(1) = <<"A", NL>>

-----------------------------------------------------------------------------
(* Claims about ConvertJSONToMarkdown on documents.                        *)

\* a conversion of a document given as a file has saved its results
ConvertedDoc == mat.pc = "done" /\ mat.saved /\ mat.first = EmptyDir

\* the pages array at the top level, and the one of raw_response
TopPages(doc) ==
    IF doc.t = "obj" /\ Field(doc, "pages").t = "arr" THEN Field(doc, "pages").v ELSE <<>>
RawPages(doc) ==
    IF doc.t = "obj" /\ Field(doc, "raw_response").t = "obj"
       /\ Field(Field(doc, "raw_response"), "pages").t = "arr"
    THEN Field(Field(doc, "raw_response"), "pages").v
    ELSE <<>>

Member(obj, key, zero) == IF key \in Keys(obj.v) THEN Field(obj, key).v ELSE zero

\* the page holds the members of the array entry
CopiedFrom(entry, page) ==
    /\ page.Index = Member(entry, "index", 0)
    /\ page.markdown = Member(entry, "markdown", <<>>)
    /\ Len(page.images) = Len(Member(entry, "images", <<>>))
    /\ \A m \in 1..Len(page.images) :
         LET img == Member(entry, "images", <<>>)[m] IN
         /\ page.images[m].id = Member(img, "id", <<>>)
         /\ page.images[m].TopLeftX = Member(img, "top_left_x", 0)
         /\ page.images[m].TopLeftY = Member(img, "top_left_y", 0)
         /\ page.images[m].BottomRightX = Member(img, "bottom_right_x", 0)
         /\ page.images[m].BottomRightY = Member(img, "bottom_right_y", 0)
         /\ page.images[m].payload = Member(img, "image_base64", <<>>)

PagesCopiedFrom(entries) ==
    /\ Len(mat.resp.pages) = Len(entries)
    /\ \A k \in 1..Len(entries) : CopiedFrom(entries[k], mat.resp.pages[k])
    /\ mat.err = "" /\ mat.ret.pages = Len(entries)
    /\ OutDir.md.there /\ OutDir.txt.there
    /\ OutDir.md.data = ExpectedMd(mat.resp.pages, IF mat.includeImages THEN SavedIds ELSE {})

\* C35: ConvertJSONToMarkdown on a document whose top-level object has no
\* pages but whose raw_response object has a pages array materializes one
\* page per array entry, in array order, with the entry's index and
\* markdown and each image's id, four coordinates and base64 payload
\* copied; a document that has top-level pages is materialized from those
\* and raw_response is not consulted
C35_PagesFromRawResponse ==
    ConvertedDoc =>
        /\ (Len(TopPages(mat.doc)) = 0 /\ Len(RawPages(mat.doc)) > 0)
             => PagesCopiedFrom(RawPages(mat.doc))
        /\ Len(TopPages(mat.doc)) > 0 => PagesCopiedFrom(TopPages(mat.doc))

\* a document with nothing but raw_response, whose one page has an image:
\* the page and the image with its coordinates are there, the image saved
C35_Witness ==
    /\ ConvertedDoc /\ mat.includeImages
    /\ Keys(mat.doc.v) = {"raw_response"}
    /\ mat.resp.pages =
         << [Index |-> 1, markdown |-> ImageRef(ImgX, ImgX) \o <<"B">>,
             images |-> << [id |-> ImgX, payload |-> GoodPayload,
                            TopLeftX |-> 1, TopLeftY |-> 2,
                            BottomRightX |-> 3, BottomRightY |-> 4] >>] >>
    /\ Keys(OutDir.images) = {ImageFilename(ImgX)}
    /\ OutDir.md.data = ImageRef(ImgX, LocalPath(ImgX)) \o <<"B", NL, NL>>

\* a document with two pages at the top level and another in
\* raw_response: the two pages are materialized
C35_WitnessTopLevel ==
    /\ ConvertedDoc
    /\ Len(TopPages(mat.doc)) = 2 /\ Len(RawPages(mat.doc)) = 1
    /\ TopPages(mat.doc)[1] # RawPages(mat.doc)[1]
    /\ Len(mat.resp.pages) = 2

\* the document has neither a pages array at its top level nor one in a
\* raw_response object
NeitherSchema(doc) ==
    /\ ~(doc.t = "obj" /\ Field(doc, "pages").t = "arr")
    /\ ~(doc.t = "obj" /\ Field(doc, "raw_response").t = "obj"
         /\ Field(Field(doc, "raw_response"), "pages").t = "arr")

\* C36: ConvertJSONToMarkdown on well-formed JSON that matches neither the
\* schema with top-level pages nor the one with raw_response.pages fails
\* with an error and writes no output, instead of succeeding with an empty
\* document
C36_UnknownShapeFails ==
    (/\ mat.pc = "done" /\ mat.first = EmptyDir
     /\ mat.err \notin {"read json", "mkdir output"}
     /\ NeitherSchema(mat.doc))
    => /\ mat.err # ""
       /\ ~mat.saved
       /\ ~OutDir.md.there /\ ~OutDir.txt.there /\ ~OutDir.meta.there

\* the document {} was converted: success with no page, an empty
\* output.md, an empty output.txt and a metadata.json
C36_EmptyDocument ==
    /\ mat.pc = "done" /\ mat.first = EmptyDir
    /\ mat.doc = JObj({})
    /\ mat.err = "" /\ mat.saved /\ mat.ret.pages = 0
    /\ OutDir.md.there /\ OutDir.md.data = <<>>
    /\ OutDir.txt.there /\ OutDir.txt.data = <<>>
    /\ OutDir.meta.there

\* the document {"pages": "A"} was rejected by json.Unmarshal
C36_Rejected ==
    /\ mat.pc = "done" /\ mat.first = EmptyDir
    /\ mat.doc = JObj({ <<"pages", JStr(<<"A">>)>> })
    /\ mat.err = "parse json" /\ ~mat.saved
    /\ ~OutDir.exists

\* the metadata.json of a processing run was converted
RoundTrip == mat.pc = "done" /\ mat.first # EmptyDir
SecondDir == fs[OutputName(2)]

\* C37: for every OCR response with at least one page, converting the
\* metadata.json that a successful processing run wrote, with the same
\* image-inclusion flag, produces an output.md and an output.txt identical
\* to those of that run, and the same set of image files
C37_RoundTrip ==
    (RoundTrip /\ mat.first.meta.there /\ Len(mat.firstResp.pages) >= 1)
    => /\ mat.err = "" /\ mat.saved
       /\ mat.resp.pages = mat.firstResp.pages
       /\ SecondDir.md.there /\ SecondDir.md = mat.first.md
       /\ SecondDir.txt.there /\ SecondDir.txt = mat.first.txt
       /\ SecondDir.images = mat.first.images
       /\ OutDir = mat.first

\* a response of two pages with three images was processed with image
\* inclusion and its metadata.json converted: the same outputs, two files
C37_Witness ==
    /\ RoundTrip /\ mat.includeImages /\ mat.err = ""
    /\ Len(mat.firstResp.pages) = 2
    /\ Len(AllImages(mat.firstResp.pages)) = 3
    /\ Keys(SecondDir.images) = {ImageFilename(ImgX), ImageFilename(ImgY)}
    /\ SecondDir.images = mat.first.images
    /\ Len(SecondDir.md.data) > 0 /\ SecondDir.md = mat.first.md
    /\ Len(SecondDir.txt.data) > 0 /\ SecondDir.txt = mat.first.txt

====
